---- MODULE Spec2Model ----
(***************************************************************************)
(* vm-deep-inspection-demo: session manager, export sessions, delta disk   *)
(* paths and snapshot search.                                              *)
(*                                                                         *)
(* Each component is a specification of its own over its own variables;    *)
(* the variables of the other components stay at their initial values.     *)
(*   Spec      session manager (internal/vmware/client.go, type Client)    *)
(*   SpecNBD   export sessions (NBDKitSession: Open, WaitForReady, Close)  *)
(*   SpecPath  getBaseDiskPath of VMService and of Inspector               *)
(*   SpecSnap  findSnapshotInTree and the closure of FindSnapshotByName    *)
(*                                                                         *)
(* Session manager.                                                        *)
(* Several goroutines call the public methods of one Client concurrently.  *)
(* Every method is cut at its accesses to the shared state (the RWMutex,   *)
(* c.client, c.isLoggedIn) and at its remote round trips.  Remote round    *)
(* trips (vim25.NewClient, Login, UserSession, Logout) succeed or fail     *)
(* nondeterministically and fail once the context they are given is done.  *)
(*                                                                         *)
(* sync.RWMutex is modelled by its holder and its reader count.  An        *)
(* RUnlock with no reader registered, or while a writer holds the lock, is *)
(* the runtime's fatal error "sync: RUnlock of unlocked RWMutex"; with     *)
(* other readers registered it silently takes one of their slots.  The     *)
(* preference a pending writer has over new readers is not modelled.       *)
(***************************************************************************)
EXTENDS Integers, Sequences, FiniteSets, TLC

\* ---------------------------------------------------------------- bounds
\* largest c.config.RetryAttempts explored
MaxRetry == 1

\* number of govmomi clients Connect may build in one run
MaxHandles == 2

\* the goroutines that call the methods of the one Client
Threads == {1, 2}

\* largest timeout given to WaitForReady, in poll intervals of 500ms
MaxTimeout == 1

\* longest body of a disk path explored, before its tail
MaxBody == 8

\* largest number of nodes of a snapshot forest explored
MaxNodes == 4

\* devices of a VM
MaxDevices == 2

\* calls of CreateLinkedClone, DeleteVM and CreateSnapshot, one after another
MaxCalls == 2

\* longest password explored
MaxPassword == 3

\* longest string given to contains
MaxStr == 2

\* the goroutines that open, await and close export sessions; each closes
\* the session it holds before it opens another
Callers == {1, 2}

\* identities of the processes started and of the uuids drawn: as many as
\* there are callers
Ids == Callers

\* ---------------------------------------------------------------- state
VARIABLES
  client,        \* c.client: 0 is nil, h > 0 is the h-th govmomi.Client built
  isLoggedIn,    \* c.isLoggedIn
  mutexW,        \* c.mutex: the goroutine holding the write lock, 0 if none
  mutexR,        \* c.mutex: number of registered readers
  fault,         \* "none", or the fatal error / panic that ended the process
  nextHandle,    \* identity of the next govmomi.Client to be built
  retryAttempts, \* c.config.RetryAttempts
  urlOK,         \* whether c.config.VCenterURL parses
  verified,      \* the session of c.client passed the verification round trip
  pc,            \* per goroutine: position in the code
  stack,         \* per goroutine: return positions of the calls in progress
  op,            \* per goroutine: public method called (last or in progress)
  ctxDone,       \* per goroutine: ctx of the call (and every context derived
                 \* from it) is cancelled or past its deadline
  attempt,       \* per goroutine: loop variable of loginWithRetry
  gcClient,      \* per goroutine: local "client" of GetClient while it is live
  err,           \* per goroutine: error returned by the call that last returned
  ret,           \* per goroutine: handle returned by GetClient
  obs            \* per goroutine: observations of the call in progress, kept
                 \* until the caller has consumed the result of the call

\* export sessions (NBDKitSession)
VARIABLES
  proc,          \* per nbdkit process: its state "none", "running", "exited"
                 \* (ended, not yet waited for) or "reaped" (Wait has
                 \* collected it), the socket path it was given, and whether
                 \* its socket file has ever existed
  captured,      \* per process: whether stderrBuf / stdoutBuf hold text
  sockets,       \* the socket files that exist under /tmp
  nextUUID,      \* the next value of uuid.New()
  nextPid,       \* the next process cmd.Start() creates
  session,       \* per caller: the *NBDKitSession it holds, NilSession if nil
  npc,           \* per caller: position in the code
  timeout,       \* per caller: argument of WaitForReady, in poll intervals
  elapsed,       \* per caller: poll intervals slept since WaitForReady began
  result,        \* per caller: what the last call returned
  panicked,      \* a nil pointer dereference ended the program
  nobs,          \* per caller: locals and observations of the call in progress
  closed         \* the sessions on which a Close has returned

\* delta disk paths (getBaseDiskPath)
VARIABLES
  diskPath,      \* the argument, a sequence of characters
  basePath,      \* what VMService.getBaseDiskPath returned
  inspBasePath,  \* what Inspector.getBaseDiskPath returned
  pathPc         \* "input" before the calls, "done" after

\* snapshot search
VARIABLES
  snapDepth,     \* the snapshot forest in pre-order: depth of each node
  snapName,      \* name of each node
  searchName,    \* the name searched for
  treeResult,    \* what findSnapshotInTree returned
  closureResult, \* what the findSnapshot closure returned
  snapPc         \* "input" before the calls, "done" after

\* snapshot disk resolution (GetSnapshotDiskInfo, FindSnapshotByName)
VARIABLES
  gop,           \* the method called
  gpc,           \* position in the code
  gName,         \* snapshotName
  gSnapshot,     \* vmMo.Snapshot: none (nil) or one forest with its names
  gDevices,      \* vmMo.Config.Hardware.Device
  gMoref,        \* snapshotMoref
  gDiskPaths,    \* diskPaths
  gBasePaths,    \* baseDiskPaths
  gHost,         \* what the lookup of vmMo.Runtime.Host gave
  gResult        \* what the call returned

\* remote tasks (CreateLinkedClone, DeleteVM, CreateSnapshot)
VARIABLES
  top,           \* the method called
  tpc,           \* position in the code
  tctx,          \* ctx of the call is cancelled or past its deadline
  task,          \* state of the remote task the call created
  mutations,     \* remote mutating calls the call has issued
  invocations,   \* calls of the three methods so far
  tResult        \* what the last call returned

\* cancellation around export sessions
VARIABLES
  nctx           \* per caller: the ctx it passed to Open is done

nbdVars == <<proc, captured, sockets, nextUUID, nextPid, session, npc,
             timeout, elapsed, result, panicked, nobs, closed>>

pathVars == <<diskPath, basePath, inspBasePath, pathPc>>

snapVars == <<snapDepth, snapName, searchName, treeResult, closureResult, snapPc>>

diskVars == <<gop, gpc, gName, gSnapshot, gDevices, gMoref, gDiskPaths,
              gBasePaths, gHost, gResult>>

taskVars == <<top, tpc, tctx, task, mutations, invocations, tResult>>

\* one inspection (VirtInspector.Inspect)
VARIABLES
  ipc,           \* position in the code
  iDefers,       \* the deferred calls of the call in progress, last first
  iSessions,     \* per session a successful Open returned: "open" or "closed"
  iCur,          \* nbdkitSession of the call in progress, 0 before Open
  iUsed,         \* the states in which a session's URL was handed to
                 \* virt-inspector
  iErr,          \* the value the call in progress is returning
  iResult        \* what the last call returned

inspVars == <<ipc, iDefers, iSessions, iCur, iUsed, iErr, iResult>>

\* the command line of nbdkit and its log entry (OpenWithNBDKitVDDK)
VARIABLES
  lpc,           \* "input" before the log entry is written, "logged" after
  lPassword,     \* password
  lThumbprint,   \* thumbprint, "" when there is none
  lLogger,       \* logger != nil
  lArgs,         \* nbdkitArgs
  lLogged        \* the "args" field of the log entry, <<>> when none is written

logVars == <<lpc, lPassword, lThumbprint, lLogger, lArgs, lLogged>>

\* the password file of VirtV2vInspector.Inspect
VARIABLES
  vpc,           \* position in the code
  vFiles,        \* the temporary password files that exist
  vFile,         \* tmpFile.Name() / passwordFile of the call in progress
  vNext,         \* the number of the next call of Inspect
  vDefers,       \* the deferred calls of the call in progress, last first
  vErr,          \* the value the call in progress is returning
  vResult        \* what the last call returned

pwVars == <<vpc, vFiles, vFile, vNext, vDefers, vErr, vResult>>

\* the clone of VMService.InspectVMFromSnapshot
VARIABLES
  cpc,           \* position in the code
  cFind,         \* what FindSnapshotByName returned
  cClone,        \* what CreateLinkedClone returned
  cDelete,       \* what DeleteVM returned
  cDeletes,      \* calls of DeleteVM made by the call in progress
  cCalls,        \* calls of InspectVMFromSnapshot so far
  cClones,       \* the inspection clones that exist, by their cloneName
  cName,         \* cloneName of the call in progress
  cResult        \* what the last call returned

cloneVars == <<cpc, cFind, cClone, cDelete, cDeletes, cCalls, cClones,
               cName, cResult>>

\* the handler helper contains
VARIABLES
  sS,            \* s
  sSubstr,       \* substr
  sPc,           \* "input" before the call, "done" after
  sResult        \* what contains returned

subVars == <<sS, sSubstr, sPc, sResult>>

\* the state of the components modelled last
later == <<inspVars, logVars, pwVars, cloneVars, subVars>>

\* the state of the components modelled after the first four
others == <<diskVars, taskVars, nctx, later>>

\* the state outside the session manager
outside == <<nbdVars, pathVars, snapVars, others>>

shared == <<client, isLoggedIn, mutexW, mutexR, fault, nextHandle, verified>>

cfg == <<retryAttempts, urlOK>>

ctl == <<pc, stack, op>>

locals == <<attempt, gcClient, err, ret>>

clientVars == <<client, isLoggedIn, mutexW, mutexR, fault, nextHandle, verified,
                retryAttempts, urlOK, pc, stack, op, ctxDone,
                attempt, gcClient, err, ret, obs>>

vars == <<clientVars, outside>>

\* the state of the components modelled before them
earlier == <<clientVars, nbdVars, pathVars, snapVars, diskVars, taskVars, nctx>>

\* ---------------------------------------------------------------- errors
\* An error is the chain of its wrapped messages, outermost first; nil is <<>>.
Nil == <<>>

Err(msg, n) == [msg |-> msg, n |-> n]

Wrap(msg, e) == <<Err(msg, 0)>> \o e

LoginError == <<Err("login error", 0)>>

CtxError == <<Err("context done", 0)>>

\* Outcomes of a remote round trip made with a context.
Outcomes(done) == IF done THEN {FALSE} ELSE BOOLEAN

Accessors == {"GetConfig", "GetVCenterURL", "GetCredentials"}

Ops == {"Connect", "Disconnect", "Reconnect", "GetClient", "HealthCheck"} \cup Accessors

ObsInit ==
  [held |-> 0, rogue |-> FALSE, logins |-> 0, verifies |-> 0, logouts |-> 0,
   reconnects |-> 0, gcProbeFailed |-> FALSE, made |-> 0, pre |-> 0,
   loginOK |-> FALSE]

\* ---------------------------------------------------------------- idle
\* a nil *NBDKitSession
NilSession == [socketPath |-> 0, cmd |-> 0]

NoProc == [st |-> "none", sock |-> 0, everSock |-> FALSE]

NoOutput == [stderr |-> FALSE, stdout |-> FALSE]

NoResult == [op |-> "none", kind |-> "none", text |-> ""]

NObsInit == [pid |-> 0, sock |-> 0, sockAtCall |-> FALSE, sent |-> <<>>]

\* no export session has been opened
NBDIdle ==
  /\ proc = [i \in Ids |-> NoProc]
  /\ captured = [i \in Ids |-> NoOutput]
  /\ sockets = {}
  /\ nextUUID = 1
  /\ nextPid = 1
  /\ session = [c \in Callers |-> NilSession]
  /\ npc = [c \in Callers |-> "idle"]
  /\ timeout = [c \in Callers |-> 0]
  /\ elapsed = [c \in Callers |-> 0]
  /\ result = [c \in Callers |-> NoResult]
  /\ panicked = FALSE
  /\ nobs = [c \in Callers |-> NObsInit]
  /\ closed = {}

\* getBaseDiskPath is not called
PathIdle ==
  /\ diskPath = <<>>
  /\ basePath = <<>>
  /\ inspBasePath = <<>>
  /\ pathPc = "off"

\* no snapshot is searched for
SnapIdle ==
  /\ snapDepth = <<>>
  /\ snapName = <<>>
  /\ searchName = ""
  /\ treeResult = 0
  /\ closureResult = 0
  /\ snapPc = "off"

\* no snapshot is being resolved
NoDiskResult == [op |-> "none", info |-> <<>>, err |-> <<>>]

\* the host of the VM has not been looked up
NoHost == [looked |-> FALSE, set |-> FALSE, path |-> ""]

DiskIdle ==
  /\ gop = "none"
  /\ gpc = "off"
  /\ gName = ""
  /\ gSnapshot = <<>>
  /\ gDevices = <<>>
  /\ gMoref = <<>>
  /\ gDiskPaths = <<>>
  /\ gBasePaths = <<>>
  /\ gHost = NoHost
  /\ gResult = NoDiskResult

\* no remote task has been asked for
NoTaskResult == [op |-> "none", value |-> "", err |-> <<>>]

TaskIdle ==
  /\ top = "none"
  /\ tpc = "off"
  /\ tctx = FALSE
  /\ task = "none"
  /\ mutations = 0
  /\ invocations = 0
  /\ tResult = NoTaskResult

\* no caller's context is done
CtxIdle == nctx = [c \in Callers |-> FALSE]

\* no inspection has been asked for
NoInspection == [kind |-> "none", cause |-> "", data |-> FALSE]

InspIdle ==
  /\ ipc = "off"
  /\ iDefers = <<>>
  /\ iSessions = <<>>
  /\ iCur = 0
  /\ iUsed = {}
  /\ iErr = NoInspection
  /\ iResult = NoInspection

\* no command line is being built
LogIdle ==
  /\ lpc = "off"
  /\ lPassword = <<>>
  /\ lThumbprint = <<>>
  /\ lLogger = FALSE
  /\ lArgs = <<>>
  /\ lLogged = <<>>

\* no password file is in use
PwIdle ==
  /\ vpc = "off"
  /\ vFiles = {}
  /\ vFile = 0
  /\ vNext = 1
  /\ vDefers = <<>>
  /\ vErr = ""
  /\ vResult = ""

\* no clone is asked for
CloneIdle ==
  /\ cpc = "off"
  /\ cFind = ""
  /\ cClone = ""
  /\ cDelete = ""
  /\ cDeletes = 0
  /\ cCalls = 0
  /\ cClones = {}
  /\ cName = <<>>
  /\ cResult = <<"", "">>

\* contains is not called
SubIdle ==
  /\ sS = <<>>
  /\ sSubstr = <<>>
  /\ sPc = "off"
  /\ sResult = FALSE

LaterIdle == InspIdle /\ LogIdle /\ PwIdle /\ CloneIdle /\ SubIdle

OthersIdle == DiskIdle /\ TaskIdle /\ CtxIdle /\ LaterIdle

OutsideIdle == NBDIdle /\ PathIdle /\ SnapIdle /\ OthersIdle

\* the components modelled first are not used
EarlierIdleOutside == NBDIdle /\ PathIdle /\ SnapIdle /\ DiskIdle /\ TaskIdle /\ CtxIdle

\* the session manager is not used
ClientIdle ==
  /\ client = 0
  /\ isLoggedIn = FALSE
  /\ mutexW = 0
  /\ mutexR = 0
  /\ fault = "none"
  /\ nextHandle = 1
  /\ verified = FALSE
  /\ retryAttempts = 0
  /\ urlOK = TRUE
  /\ pc = [t \in Threads |-> "idle"]
  /\ stack = [t \in Threads |-> <<>>]
  /\ op = [t \in Threads |-> "none"]
  /\ ctxDone = [t \in Threads |-> FALSE]
  /\ attempt = [t \in Threads |-> 0]
  /\ gcClient = [t \in Threads |-> 0]
  /\ err = [t \in Threads |-> Nil]
  /\ ret = [t \in Threads |-> 0]
  /\ obs = [t \in Threads |-> ObsInit]

Init ==
  /\ client = 0
  /\ isLoggedIn = FALSE
  /\ mutexW = 0
  /\ mutexR = 0
  /\ fault = "none"
  /\ nextHandle = 1
  /\ verified = FALSE
  /\ retryAttempts \in 0..MaxRetry
  /\ urlOK \in BOOLEAN
  /\ pc = [t \in Threads |-> "idle"]
  /\ stack = [t \in Threads |-> <<>>]
  /\ op = [t \in Threads |-> "none"]
  /\ ctxDone = [t \in Threads |-> FALSE]
  /\ attempt = [t \in Threads |-> 0]
  /\ gcClient = [t \in Threads |-> 0]
  /\ err = [t \in Threads |-> Nil]
  /\ ret = [t \in Threads |-> 0]
  /\ obs = [t \in Threads |-> ObsInit]
  /\ OutsideIdle

\* nothing but the components modelled last is used
EarlierIdle == ClientIdle /\ EarlierIdleOutside

\* ---------------------------------------------------------------- control
Goto(t, l) ==
  /\ pc' = [pc EXCEPT ![t] = l]
  /\ UNCHANGED stack

Call(t, entry, back) ==
  /\ pc' = [pc EXCEPT ![t] = entry]
  /\ stack' = [stack EXCEPT ![t] = <<back>> \o stack[t]]

Return(t) ==
  /\ pc' = [pc EXCEPT ![t] = Head(stack[t])]
  /\ stack' = [stack EXCEPT ![t] = Tail(stack[t])]

At(t, l) == fault = "none" /\ pc[t] = l

Entry(o) ==
  CASE o = "Connect" -> "c_lock"
    [] o = "Disconnect" -> "d_lock"
    [] o = "Reconnect" -> "r_start"
    [] o = "GetClient" -> "g_rlock"
    [] o = "HealthCheck" -> "h_start"
    [] OTHER -> "a_rlock"

\* A goroutine calls a public method with a fresh context.
StartOp(t, o) ==
  /\ At(t, "idle")
  /\ op' = [op EXCEPT ![t] = o]
  /\ pc' = [pc EXCEPT ![t] = Entry(o)]
  /\ stack' = [stack EXCEPT ![t] = <<"idle">>]
  /\ ctxDone' = [ctxDone EXCEPT ![t] = FALSE]
  /\ attempt' = [attempt EXCEPT ![t] = 0]
  /\ gcClient' = [gcClient EXCEPT ![t] = 0]
  /\ err' = [err EXCEPT ![t] = Nil]
  /\ ret' = [ret EXCEPT ![t] = 0]
  /\ obs' = [obs EXCEPT ![t] = ObsInit]
  /\ UNCHANGED <<shared, cfg>>
  /\ UNCHANGED outside

\* The caller cancels ctx, or a deadline on it passes (ConnectionTimeout of
\* connectCtx included), while loginWithRetry runs.  At every other point a
\* done context only makes the pending round trip fail, which Outcomes
\* already allows, and no login follows a failed round trip outside the loop.
Cancel(t) ==
  /\ fault = "none"
  /\ pc[t] \in {"c_login", "c_wait"}
  /\ ~ctxDone[t]
  /\ ctxDone' = [ctxDone EXCEPT ![t] = TRUE]
  /\ UNCHANGED <<shared, cfg, ctl, locals, obs>>
  /\ UNCHANGED outside

\* ---------------------------------------------------------------- c.mutex
CanLock == mutexW = 0 /\ mutexR = 0

CanRLock == mutexW = 0

\* RUnlock with no reader registered or under a writer: runtime fatal error.
RUnlockFatal == mutexR = 0 \/ mutexW # 0

RLockBy(t) ==
  /\ CanRLock
  /\ mutexR' = mutexR + 1
  /\ obs' = [obs EXCEPT ![t].held = @ + 1]
  /\ UNCHANGED <<mutexW, fault>>

\* o is the goroutine's observation record before the release is recorded.
RUnlockBy(t, o) ==
  /\ obs' = [obs EXCEPT ![t] = [o EXCEPT !.held = IF @ > 0 THEN @ - 1 ELSE 0,
                                         !.rogue = o.rogue \/ o.held = 0]]
  /\ IF RUnlockFatal
       THEN /\ fault' = "sync: RUnlock of unlocked RWMutex"
            /\ UNCHANGED <<mutexW, mutexR>>
       ELSE /\ mutexR' = mutexR - 1
            /\ UNCHANGED <<mutexW, fault>>

\* ---------------------------------------------------------------- Connect
\* Off by one: the loop stops one attempt early.
LoginLoopCond_OffByOne(a) == a < retryAttempts

\* for attempt := 0; attempt <= c.config.RetryAttempts; attempt++
LoginLoopCond(a) == a <= retryAttempts

LoginFailedErr ==
  <<Err("login failed after attempts", retryAttempts + 1)>> \o LoginError

\* return of Connect: the deferred Unlock runs, the caller resumes.  The
\* counts of the call and the state of its context are kept for a caller
\* outside the Client only: inside the Client every caller of Connect
\* looks at the returned error alone.
ConnectReturn(t, e, o) ==
  /\ mutexW' = 0
  /\ Return(t)
  /\ err' = [err EXCEPT ![t] = e]
  /\ attempt' = [attempt EXCEPT ![t] = 0]
  /\ IF Head(stack[t]) = "idle"
       THEN /\ obs' = [obs EXCEPT ![t] = o]
            /\ UNCHANGED ctxDone
       ELSE /\ obs' = [obs EXCEPT ![t] = [o EXCEPT !.logins = 0, !.verifies = 0,
                                                    !.loginOK = FALSE]]
            /\ ctxDone' = [ctxDone EXCEPT ![t] = FALSE]

\* c.mutex.Lock(); connectCtx is derived from ctx.
ConnectLock(t) ==
  /\ At(t, "c_lock")
  /\ CanLock
  /\ mutexW' = t
  /\ Goto(t, "c_setup")
  /\ obs' = [obs EXCEPT ![t].logins = 0, ![t].verifies = 0, ![t].made = 0,
                         ![t].loginOK = FALSE]
  /\ UNCHANGED <<client, isLoggedIn, mutexR, fault, nextHandle, verified,
                 cfg, op, ctxDone, locals>>
  /\ UNCHANGED outside

\* Head of the loop of loginWithRetry with attempt = a.
LoginLoopHead(t, a, o) ==
  IF LoginLoopCond(a)
    THEN /\ Goto(t, IF a > 0 THEN "c_wait" ELSE "c_login")
         /\ attempt' = [attempt EXCEPT ![t] = a]
         /\ obs' = [obs EXCEPT ![t] = o]
         /\ UNCHANGED <<mutexW, err, ctxDone>>
    ELSE ConnectReturn(t, Wrap("failed to login to vCenter", LoginFailedErr), o)

\* url.Parse, vim25.NewClient, then c.client and c.session are replaced and
\* loginWithRetry is entered.
ConnectSetup(t) ==
  /\ At(t, "c_setup")
  /\ IF ~urlOK
       THEN /\ ConnectReturn(t, <<Err("invalid vCenter URL", 0)>>,
                             [obs[t] EXCEPT !.pre = 0])
            /\ UNCHANGED <<client, nextHandle, verified>>
       ELSE \E ok \in Outcomes(ctxDone[t]) :
              IF ok
                THEN /\ nextHandle <= MaxHandles
                     /\ client' = nextHandle
                     /\ nextHandle' = nextHandle + 1
                     /\ verified' = FALSE
                     /\ LoginLoopHead(t, 0, [obs[t] EXCEPT !.made = nextHandle,
                                                            !.pre = 0])
                ELSE /\ ConnectReturn(t, <<Err("failed to create vim25 client", 0)>>,
                                      [obs[t] EXCEPT !.pre = 0])
                     /\ UNCHANGED <<client, nextHandle, verified>>
  /\ UNCHANGED <<isLoggedIn, mutexR, fault, cfg, op, gcClient, ret>>
  /\ UNCHANGED outside

\* select { case <-ctx.Done(): return ctx.Err(); case <-time.After(delay): }
\* The select is completed by whichever event comes first: here ctx was done
\* before the timer fired.
ConnectWaitCancelled(t) ==
  /\ At(t, "c_wait")
  /\ ctxDone[t]
  /\ ConnectReturn(t, Wrap("failed to login to vCenter", CtxError), obs[t])
  /\ UNCHANGED <<client, isLoggedIn, mutexR, fault, nextHandle, verified, cfg,
                 op, gcClient, ret>>
  /\ UNCHANGED outside

\* The timer fired while ctx was not done.
ConnectWaitTimer(t) ==
  /\ At(t, "c_wait")
  /\ ~ctxDone[t]
  /\ Goto(t, "c_login")
  /\ UNCHANGED <<shared, cfg, op, ctxDone, locals, obs>>
  /\ UNCHANGED outside

\* The error of Login is not looked at.
LoginReturns_Always(loginOK) == TRUE

\* if err == nil { return nil }: loginWithRetry returns nil to Connect
LoginReturns(loginOK) == loginOK

\* err := c.session.Login(ctx, c.client.Client, nil)
ConnectLogin(t) ==
  /\ At(t, "c_login")
  /\ \E ok \in Outcomes(ctxDone[t]) :
       LET o == [obs[t] EXCEPT !.logins = @ + 1, !.loginOK = ok] IN
       IF LoginReturns(ok)
         THEN /\ Goto(t, "c_verify")
              /\ obs' = [obs EXCEPT ![t] = o]
              /\ UNCHANGED <<mutexW, err, attempt, ctxDone>>
         ELSE LoginLoopHead(t, attempt[t] + 1, o)
  /\ UNCHANGED <<client, isLoggedIn, mutexR, fault, nextHandle, verified, cfg,
                 op, gcClient, ret>>
  /\ UNCHANGED outside

\* userSession, err := sessionMgr.UserSession(connectCtx); c.isLoggedIn = true
ConnectVerify(t) ==
  /\ At(t, "c_verify")
  /\ \E ok \in Outcomes(ctxDone[t]) :
       LET o == [obs[t] EXCEPT !.verifies = @ + 1] IN
       IF ok
         THEN /\ isLoggedIn' = TRUE
              /\ verified' = TRUE
              /\ ConnectReturn(t, Nil, o)
         ELSE /\ ConnectReturn(t, <<Err("failed to verify session", 0)>>, o)
              /\ UNCHANGED <<isLoggedIn, verified>>
  /\ UNCHANGED <<client, mutexR, fault, nextHandle, cfg, op, gcClient, ret>>
  /\ UNCHANGED outside

\* ---------------------------------------------------------------- Disconnect
\* if c.client == nil || !c.isLoggedIn { return nil }
NotConnected == client = 0 \/ ~isLoggedIn

\* The error of Logout is returned instead of being logged.
DisconnectResult_Propagate(logoutOK) ==
  IF logoutOK THEN Nil ELSE <<Err("logout failed", 0)>>

\* The error of Logout is logged, never returned.
DisconnectResult(logoutOK) == Nil

\* c.mutex.Lock() and the connected test; not connected: return nil at once.
DisconnectLock(t) ==
  /\ At(t, "d_lock")
  /\ CanLock
  /\ IF NotConnected
       THEN /\ Return(t)
            /\ err' = [err EXCEPT ![t] = Nil]
            /\ UNCHANGED mutexW
       ELSE /\ mutexW' = t
            /\ Goto(t, "d_logout")
            /\ UNCHANGED err
  /\ obs' = [obs EXCEPT ![t].logouts = 0]
  /\ UNCHANGED <<client, isLoggedIn, mutexR, fault, nextHandle, verified, cfg,
                 op, ctxDone, attempt, gcClient, ret>>
  /\ UNCHANGED outside

\* c.session.Logout(logoutCtx, ...), then the local state is cleared.
DisconnectLogout(t) ==
  /\ At(t, "d_logout")
  /\ \E ok \in Outcomes(ctxDone[t]) :
       /\ isLoggedIn' = FALSE
       /\ client' = 0
       /\ verified' = FALSE
       /\ mutexW' = 0
       /\ Return(t)
       /\ err' = [err EXCEPT ![t] = DisconnectResult(ok)]
  /\ obs' = [obs EXCEPT ![t].logouts = @ + 1]
  /\ UNCHANGED <<mutexR, fault, nextHandle, cfg, op, ctxDone, attempt,
                 gcClient, ret>>
  /\ UNCHANGED outside

\* ---------------------------------------------------------------- Reconnect
\* The result of Connect is dropped.
ReconnectResult_Dropped(connErr) == Nil

\* return c.Connect(ctx): the result of Disconnect is discarded.
ReconnectResult(connErr) == connErr

\* _ = c.Disconnect(ctx)
ReconnectDisconnect(t) ==
  /\ At(t, "r_start")
  /\ Call(t, "d_lock", "r_connect")
  /\ obs' = [obs EXCEPT ![t].reconnects = @ + 1, ![t].pre = client]
  /\ UNCHANGED <<shared, cfg, op, ctxDone, locals>>
  /\ UNCHANGED outside

\* c.Connect(ctx) is called whatever Disconnect returned.
ReconnectConnect(t) ==
  /\ At(t, "r_connect")
  /\ Call(t, "c_lock", "r_return")
  /\ obs' = [obs EXCEPT ![t].logouts = 0]
  /\ UNCHANGED <<shared, cfg, op, ctxDone, locals>>
  /\ UNCHANGED outside

ReconnectReturn(t) ==
  /\ At(t, "r_return")
  /\ Return(t)
  /\ err' = [err EXCEPT ![t] = ReconnectResult(err[t])]
  /\ UNCHANGED <<shared, cfg, op, ctxDone, attempt, gcClient, ret, obs>>
  /\ UNCHANGED outside

\* ---------------------------------------------------------------- GetClient
\* c.mutex.RLock() at the entry of GetClient.
GetClientRLock(t) ==
  /\ At(t, "g_rlock")
  /\ RLockBy(t)
  /\ Goto(t, "g_check")
  /\ UNCHANGED <<client, isLoggedIn, nextHandle, verified, cfg, op, ctxDone, locals>>
  /\ UNCHANGED outside

\* if c.client != nil && c.isLoggedIn { client := c.client; RUnlock ... }
\* else RUnlock and c.Connect(ctx).
GetClientCheck(t) ==
  /\ At(t, "g_check")
  /\ RUnlockBy(t, obs[t])
  /\ IF ~NotConnected
       THEN /\ gcClient' = [gcClient EXCEPT ![t] = client]
            /\ Goto(t, "g_probe")
       ELSE /\ Call(t, "c_lock", "g_connected")
            /\ UNCHANGED gcClient
  /\ UNCHANGED <<client, isLoggedIn, nextHandle, verified, cfg, op, ctxDone,
                 attempt, err, ret>>
  /\ UNCHANGED outside

\* return of GetClient
GetClientReturn(t, h, e, o) ==
  /\ Return(t)
  /\ ret' = [ret EXCEPT ![t] = h]
  /\ err' = [err EXCEPT ![t] = e]
  /\ obs' = [obs EXCEPT ![t] = o]

\* sessionMgr.UserSession(ctx) on the handle read above.
GetClientProbe(t) ==
  /\ At(t, "g_probe")
  /\ \E ok \in Outcomes(ctxDone[t]) :
       IF ok
         THEN GetClientReturn(t, gcClient[t], Nil, obs[t])
         ELSE /\ Goto(t, "g_runlock")
              /\ obs' = [obs EXCEPT ![t].gcProbeFailed = TRUE]
              /\ UNCHANGED <<err, ret>>
  /\ gcClient' = [gcClient EXCEPT ![t] = 0]
  /\ UNCHANGED <<shared, cfg, op, ctxDone, attempt>>
  /\ UNCHANGED outside

\* c.mutex.RUnlock() after the failed probe (the read lock taken at the entry
\* was already released), then c.Reconnect(ctx).
GetClientProbeFailedRUnlock(t) ==
  /\ At(t, "g_runlock")
  /\ RUnlockBy(t, obs[t])
  /\ Call(t, "r_start", "g_reconnected")
  /\ UNCHANGED <<client, isLoggedIn, nextHandle, verified, cfg, op, ctxDone, locals>>
  /\ UNCHANGED outside

\* if err := c.Reconnect(ctx); err != nil { return nil, wrapped }
GetClientAfterReconnect(t) ==
  /\ At(t, "g_reconnected")
  /\ IF err[t] # Nil
       THEN GetClientReturn(t, 0,
              Wrap("failed to reconnect after session validation failure", err[t]),
              obs[t])
       ELSE /\ Goto(t, "g_rlock_r")
            /\ UNCHANGED <<err, ret, obs>>
  /\ UNCHANGED <<shared, cfg, op, ctxDone, attempt, gcClient>>
  /\ UNCHANGED outside

\* if err := c.Connect(ctx); err != nil { return nil, wrapped }
GetClientAfterConnect(t) ==
  /\ At(t, "g_connected")
  /\ IF err[t] # Nil
       THEN GetClientReturn(t, 0, Wrap("failed to establish connection", err[t]),
                            obs[t])
       ELSE /\ Goto(t, "g_rlock_c")
            /\ UNCHANGED <<err, ret, obs>>
  /\ UNCHANGED <<shared, cfg, op, ctxDone, attempt, gcClient>>
  /\ UNCHANGED outside

\* c.mutex.RLock() before the final read of c.client (both paths).
GetClientFinalRLock(t) ==
  /\ fault = "none"
  /\ pc[t] \in {"g_rlock_r", "g_rlock_c"}
  /\ RLockBy(t)
  /\ Goto(t, IF pc[t] = "g_rlock_r" THEN "g_read_r" ELSE "g_read_c")
  /\ UNCHANGED <<client, isLoggedIn, nextHandle, verified, cfg, op, ctxDone, locals>>
  /\ UNCHANGED outside

\* return c.client, nil with the deferred RUnlock (both paths).
GetClientFinalRead(t) ==
  /\ fault = "none"
  /\ pc[t] \in {"g_read_r", "g_read_c"}
  /\ Return(t)
  /\ ret' = [ret EXCEPT ![t] = client]
  /\ err' = [err EXCEPT ![t] = Nil]
  /\ RUnlockBy(t, obs[t])
  /\ UNCHANGED <<client, isLoggedIn, nextHandle, verified, cfg, op, ctxDone,
                 attempt, gcClient>>
  /\ UNCHANGED outside

\* ---------------------------------------------------------------- HealthCheck
\* client, err := c.GetClient(ctx)
HealthCheckGetClient(t) ==
  /\ At(t, "h_start")
  /\ Call(t, "g_rlock", "h_got")
  /\ UNCHANGED <<shared, cfg, op, ctxDone, locals, obs>>
  /\ UNCHANGED outside

\* The failure of the probe is reported although the reconnect was made.
\* What HealthCheck returns once Reconnect has returned reconnErr.
HealthCheckResult(reconnErr) == reconnErr

\* if err != nil { return wrapped }; session.NewManager(client.Client)
\* dereferences client: a nil handle is a nil pointer dereference.  The
\* handle is used for the probe only and is not kept.
HealthCheckAfterGet(t) ==
  /\ At(t, "h_got")
  /\ IF err[t] # Nil
       THEN /\ Return(t)
            /\ err' = [err EXCEPT ![t] = Wrap("connection not available", err[t])]
            /\ ret' = [ret EXCEPT ![t] = 0]
            /\ obs' = [obs EXCEPT ![t] = ObsInit]
            /\ UNCHANGED fault
       ELSE IF ret[t] = 0
         THEN /\ fault' = "nil pointer dereference"
              /\ UNCHANGED <<pc, stack, err, ret, obs>>
         ELSE /\ Goto(t, "h_probe")
              /\ ret' = [ret EXCEPT ![t] = 0]
              /\ obs' = [obs EXCEPT ![t] = ObsInit]
              /\ UNCHANGED <<err, fault>>
  /\ UNCHANGED <<client, isLoggedIn, mutexW, mutexR, nextHandle, verified, cfg,
                 op, ctxDone, attempt, gcClient>>
  /\ UNCHANGED outside

\* _, err = sessionMgr.UserSession(healthCtx); on failure c.Reconnect(ctx)
HealthCheckProbe(t) ==
  /\ At(t, "h_probe")
  /\ \E ok \in Outcomes(ctxDone[t]) :
       IF ok
         THEN /\ Return(t)
              /\ err' = [err EXCEPT ![t] = Nil]
              /\ UNCHANGED obs
         ELSE /\ Call(t, "r_start", "h_reconnected")
              /\ UNCHANGED <<err, obs>>
  /\ UNCHANGED <<shared, cfg, op, ctxDone, attempt, gcClient, ret>>
  /\ UNCHANGED outside

\* return c.Reconnect(ctx)
HealthCheckAfterReconnect(t) ==
  /\ At(t, "h_reconnected")
  /\ Return(t)
  /\ err' = [err EXCEPT ![t] = HealthCheckResult(err[t])]
  /\ UNCHANGED <<shared, cfg, op, ctxDone, attempt, gcClient, ret, obs>>
  /\ UNCHANGED outside

\* ---------------------------------------------------------------- accessors
\* GetConfig / GetVCenterURL / GetCredentials: c.mutex.RLock()
AccessorRLock(t) ==
  /\ At(t, "a_rlock")
  /\ RLockBy(t)
  /\ Goto(t, "a_read")
  /\ UNCHANGED <<client, isLoggedIn, nextHandle, verified, cfg, op, ctxDone, locals>>
  /\ UNCHANGED outside

\* the field of c.config is read; the deferred RUnlock runs.
AccessorRead(t) ==
  /\ At(t, "a_read")
  /\ Return(t)
  /\ RUnlockBy(t, obs[t])
  /\ UNCHANGED <<client, isLoggedIn, nextHandle, verified, cfg, op, ctxDone, locals>>
  /\ UNCHANGED outside

\* ---------------------------------------------------------------- system
Next ==
  \E t \in Threads :
    \/ \E o \in Ops : StartOp(t, o)
    \/ Cancel(t)
    \/ ConnectLock(t)
    \/ ConnectSetup(t)
    \/ ConnectWaitCancelled(t)
    \/ ConnectWaitTimer(t)
    \/ ConnectLogin(t)
    \/ ConnectVerify(t)
    \/ DisconnectLock(t)
    \/ DisconnectLogout(t)
    \/ ReconnectDisconnect(t)
    \/ ReconnectConnect(t)
    \/ ReconnectReturn(t)
    \/ GetClientRLock(t)
    \/ GetClientCheck(t)
    \/ GetClientProbe(t)
    \/ GetClientProbeFailedRUnlock(t)
    \/ GetClientAfterReconnect(t)
    \/ GetClientAfterConnect(t)
    \/ GetClientFinalRLock(t)
    \/ GetClientFinalRead(t)
    \/ HealthCheckGetClient(t)
    \/ HealthCheckAfterGet(t)
    \/ HealthCheckProbe(t)
    \/ HealthCheckAfterReconnect(t)
    \/ AccessorRLock(t)
    \/ AccessorRead(t)

Spec == Init /\ [][Next]_vars

\* ================================================================ claims
Frames(t) == {stack[t][i] : i \in 1..Len(stack[t])}

\* t is inside Reconnect, from the moment its Disconnect has taken the lock
\* to the return of its Connect.
InReconnect(t) ==
  \/ pc[t] = "d_logout" /\ "r_connect" \in Frames(t)
  \/ pc[t] = "r_connect"
  \/ "r_return" \in Frames(t)

\* t has returned from the public method o.
Returned(t, o) == pc[t] = "idle" /\ op[t] = o

\* t leaves position l in this step.
Leaves(t, l) == pc[t] = l /\ pc'[t] # l

\* t returns to its caller in this step.
ReturnsNow(t) == pc'[t] = Head(stack[t]) /\ stack'[t] = Tail(stack[t])

\* C1: a GetClient whose liveness probe failed releases no lock it does not
\* hold, does not end the process, makes exactly one Reconnect and returns
\* either the handle built by that Reconnect with a nil error or the wrapped
\* reconnect error.
C1_StaleProbeReconnectsOnce ==
  \A t \in Threads :
    obs[t].gcProbeFailed =>
      /\ ~obs[t].rogue
      /\ Returned(t, "GetClient") =>
           /\ obs[t].reconnects = 1
           /\ \/ err[t] = Nil /\ ret[t] # 0 /\ ret[t] = obs[t].made
              \/ err[t] # Nil /\ ret[t] = 0

\* C2: a Connect that reached loginWithRetry, whose logins all failed and
\* whose context was not done, made exactly RetryAttempts+1 login attempts
\* and returned the error that wraps the last login failure and reports
\* RetryAttempts+1 attempts; no step of the login loop changes isLoggedIn.
C2_AllLoginsFail ==
  \A t \in Threads :
    (Returned(t, "Connect") /\ obs[t].logins > 0 /\ obs[t].verifies = 0
       /\ ~ctxDone[t]) =>
      /\ obs[t].logins = retryAttempts + 1
      /\ err[t] = <<Err("failed to login to vCenter", 0),
                    Err("login failed after attempts", retryAttempts + 1),
                    Err("login error", 0)>>

C2_LoginLoopKeepsFlag ==
  \A t \in Threads :
    (pc[t] \in {"c_login", "c_wait"} /\ pc'[t] # "c_verify") =>
      isLoggedIn' = isLoggedIn

C3_FlagIffHandle ==
  (\A t \in Threads : pc[t] = "idle") => (isLoggedIn <=> client # 0)

\* C4: a Connect whose login succeeded and whose verification failed returns
\* an error and leaves isLoggedIn false.
C4_VerifyFailureStep ==
  \A t \in Threads :
    (Leaves(t, "c_verify") /\ err'[t] # Nil) => ~isLoggedIn'

C4_VerifyFailureNotAuthenticated == [][C4_VerifyFailureStep]_vars

\* C5: GetClient never returns a nil handle together with a nil error, to
\* its caller or to HealthCheck.
C5_NoNilHandleWithNilError ==
  \A t \in Threads :
    (Returned(t, "GetClient") \/ pc[t] = "h_got") =>
      (err[t] = Nil => ret[t] # 0)

\* C6: while one goroutine is inside Reconnect, no other goroutine is inside
\* the critical section of Connect or Disconnect.
C6_ReconnectExclusive ==
  \A t \in Threads : \A u \in Threads \ {t} :
    InReconnect(t) => mutexW # u

\* C7: an accessor that wants the read lock while another goroutine is in the
\* login or in the retry delay of Connect can take it.
C7_AccessorNotBlockedByConnect ==
  \A t \in Threads : \A u \in Threads \ {t} :
    (pc[t] = "a_rlock" /\ pc[u] \in {"c_login", "c_wait"}) => CanRLock

\* C8: Disconnect returns nil and changes nothing when not connected; when
\* connected it attempts the logout and, whatever the logout did, returns nil
\* with isLoggedIn false and c.client nil.
C8_DisconnectStep ==
  \A t \in Threads :
    /\ Leaves(t, "d_lock") =>
         IF NotConnected
           THEN /\ ReturnsNow(t) /\ err'[t] = Nil
                /\ client' = client /\ isLoggedIn' = isLoggedIn
                /\ obs'[t].logouts = 0
           ELSE pc'[t] = "d_logout" /\ mutexW' = t
    /\ Leaves(t, "d_logout") =>
         /\ ReturnsNow(t) /\ err'[t] = Nil
         /\ ~isLoggedIn' /\ client' = 0 /\ mutexW' = 0
         /\ obs'[t].logouts = 1

C8_DisconnectAlwaysClears == [][C8_DisconnectStep]_vars

C8_Witness ==
  \E t \in Threads :
    /\ Returned(t, "Disconnect") /\ obs[t].logouts = 1 /\ err[t] = Nil
    /\ ~isLoggedIn /\ client = 0

\* C9: Reconnect calls Disconnect, then Connect whatever Disconnect returned,
\* and returns exactly what Connect returned; when that Connect succeeds
\* isLoggedIn is true and c.client is the handle that Connect built, not the
\* handle present when Reconnect started.
C9_ReconnectStep ==
  \A t \in Threads :
    /\ Leaves(t, "r_start") =>
         pc'[t] = "d_lock" /\ Head(stack'[t]) = "r_connect"
    /\ Leaves(t, "r_connect") =>
         pc'[t] = "c_lock" /\ Head(stack'[t]) = "r_return"
    /\ Leaves(t, "r_return") => ReturnsNow(t) /\ err'[t] = err[t]
    /\ (Leaves(t, "c_setup") /\ Head(stack[t]) = "r_return"
          /\ pc'[t] \in {"c_login", "c_wait"}) =>
         /\ client' # obs[t].pre
         /\ client' = obs'[t].made
    /\ (Leaves(t, "c_verify") /\ pc'[t] = "r_return" /\ err'[t] = Nil) =>
         /\ isLoggedIn'
         /\ client' # 0 /\ client' = obs'[t].made

C9_ReconnectIsDisconnectThenConnect == [][C9_ReconnectStep]_vars

C9_Witness ==
  \E t \in Threads :
    /\ Returned(t, "Reconnect") /\ err[t] = Nil
    /\ isLoggedIn /\ client = obs[t].made /\ client > 1

\* C10: HealthCheck calls GetClient first and returns the wrapped error when
\* GetClient fails, otherwise goes on to its probe with the handle it got
\* (it does not end the process on a handle it cannot use); when its own
\* probe fails it calls Reconnect and returns exactly what Reconnect
\* returned, nil included; when the probe succeeds it returns nil.
C10_HealthCheckStep ==
  \A t \in Threads :
    /\ Leaves(t, "h_start") =>
         pc'[t] = "g_rlock" /\ Head(stack'[t]) = "h_got"
    /\ Leaves(t, "h_got") =>
         IF err[t] # Nil
           THEN ReturnsNow(t) /\ err'[t] = Wrap("connection not available", err[t])
           ELSE pc'[t] = "h_probe" /\ ret[t] # 0
    /\ (At(t, "h_got") /\ err[t] = Nil) => fault' # "nil pointer dereference"
    /\ Leaves(t, "h_probe") =>
         \/ ReturnsNow(t) /\ err'[t] = Nil
         \/ pc'[t] = "r_start" /\ Head(stack'[t]) = "h_reconnected"
    /\ Leaves(t, "h_reconnected") => ReturnsNow(t) /\ err'[t] = err[t]

C10_HealthCheckReconnects == [][C10_HealthCheckStep]_vars

\* ================================================== export sessions
\* NBDKitSession (package inspection): OpenWithNBDKitVDDK, WaitForReady and
\* Close, called by goroutines that each use the session they hold
\* sequentially, next to the nbdkit processes themselves.
\*
\* The liveness checks are cmd.Process.Signal(syscall.Signal(0)).  Nothing
\* waits for the child before Close does, so a process that has ended is
\* still a child that has not been waited for: os.Process.Signal returns
\* ErrProcessDone only once Wait has collected the process, and kill(2)
\* with signal 0 succeeds on a child that has ended and is not yet waited
\* for.  Time is counted in poll intervals: every time.Sleep of
\* WaitForReady takes one interval.

NAt(c, l) == ~panicked /\ npc[c] = l

NResult(o, kind, text) == [op |-> o, kind |-> kind, text |-> text]

\* what a process may have written to its stderr and stdout when it ends
Outputs == [stderr : BOOLEAN, stdout : BOOLEAN]

\* err != nil of cmd.Process.Signal(sig) on a process in state st
SignalFails(st) == st = "reaped"

\* socketPath := filepath.Join("/tmp", "nbdkit-" + uuid + ".sock")
NewSocketPath_Fixed(u) == 1

NewSocketPath(u) == u

\* errorMsg of Open: stderr and stdout are both appended when not empty
OpenOutput(cap) ==
  IF cap.stderr /\ cap.stdout THEN "stderr+stdout"
  ELSE IF cap.stderr THEN "stderr"
  ELSE IF cap.stdout THEN "stdout"
  ELSE ""

\* errorDetails of WaitForReady: stderr, or stdout when stderr is empty
ErrorDetails(cap) ==
  IF cap.stderr THEN "stderr" ELSE IF cap.stdout THEN "stdout" ELSE ""

\* s.cmd != nil && s.cmd.Process != nil
HasProcess(s) == s.cmd # 0

\* stderrBuf and stdoutBuf of session s
Captured(s) == IF HasProcess(s) THEN captured[s.cmd] ELSE NoOutput

\* The liveness check is left out.
Dead_Never(s) == FALSE

\* the liveness check of WaitForReady on session s fails
Dead(s) == HasProcess(s) /\ SignalFails(proc[s.cmd].st)

\* the session Open returns next to its error, s being what it has built
OpenReturns_Handed(s, failed) == s

OpenReturns(s, failed) == IF failed THEN NilSession ELSE s

\* return to the caller: the locals of the call are gone
NReturn(c, r) ==
  /\ npc' = [npc EXCEPT ![c] = "idle"]
  /\ result' = [result EXCEPT ![c] = r]
  /\ nobs' = [nobs EXCEPT ![c] = NObsInit]
  /\ timeout' = [timeout EXCEPT ![c] = 0]
  /\ elapsed' = [elapsed EXCEPT ![c] = 0]

\* ---- the nbdkit processes
\* A running process creates its socket file.
SocketAppears(p) ==
  /\ ~panicked
  /\ proc[p].st = "running"
  /\ proc[p].sock \notin sockets
  /\ ~proc[p].everSock
  /\ sockets' = sockets \cup {proc[p].sock}
  /\ proc' = [proc EXCEPT ![p].everSock = TRUE]
  /\ UNCHANGED <<captured, nextUUID, nextPid, session, npc, timeout, elapsed,
                 result, panicked, nobs, closed>>
  /\ UNCHANGED <<clientVars, pathVars, snapVars, others>>

\* A running process ends by itself (an error, or the interrupt it was
\* sent), having written some output or none, and removing its socket file
\* or leaving it behind.
ProcExits(p) ==
  /\ ~panicked
  /\ proc[p].st = "running"
  /\ proc' = [proc EXCEPT ![p].st = "exited"]
  /\ \E out \in Outputs : captured' = [captured EXCEPT ![p] = out]
  /\ \E cleans \in BOOLEAN :
       sockets' = IF cleans THEN sockets \ {proc[p].sock} ELSE sockets
  /\ UNCHANGED <<nextUUID, nextPid, session, npc, timeout, elapsed,
                 result, panicked, nobs, closed>>
  /\ UNCHANGED <<clientVars, pathVars, snapVars, others>>

\* ---- OpenWithNBDKitVDDK
\* url.Parse, socketPath from a fresh uuid, cmd.Start(); then the 2s sleep.
\* The caller passes a context that is not done.
OpenStart(c) ==
  /\ NAt(c, "idle")
  /\ session[c] = NilSession \/ session[c] \in closed
  /\ nextUUID \in Ids
  /\ \E parseOK \in BOOLEAN, startOK \in BOOLEAN :
       IF ~parseOK
         THEN /\ NReturn(c, NResult("Open", "failed to parse vCenter URL", ""))
              /\ session' = [session EXCEPT ![c] = OpenReturns(NilSession, TRUE)]
              /\ UNCHANGED <<proc, nextUUID, nextPid>>
         ELSE /\ nextUUID' = nextUUID + 1
              /\ IF ~startOK
                   THEN /\ NReturn(c, NResult("Open", "failed to start nbdkit", ""))
                        /\ session' = [session EXCEPT ![c] =
                             OpenReturns([socketPath |-> NewSocketPath(nextUUID),
                                          cmd |-> 0], TRUE)]
                        /\ UNCHANGED <<proc, nextPid>>
                   ELSE /\ proc' = [proc EXCEPT ![nextPid] =
                                      [st |-> "running",
                                       sock |-> NewSocketPath(nextUUID),
                                       everSock |-> FALSE]]
                        /\ nextPid' = nextPid + 1
                        /\ npc' = [npc EXCEPT ![c] = "o_check"]
                        /\ nobs' = [nobs EXCEPT ![c] =
                                      [NObsInit EXCEPT !.pid = nextPid,
                                                       !.sock = NewSocketPath(nextUUID)]]
                        /\ result' = [result EXCEPT ![c] = NoResult]
                        /\ UNCHANGED <<session, timeout, elapsed>>
  /\ nctx' = [nctx EXCEPT ![c] = FALSE]
  /\ UNCHANGED <<captured, sockets, panicked, closed>>
  /\ UNCHANGED <<clientVars, pathVars, snapVars, diskVars, taskVars, later>>

\* cmd.Process.Signal(0) after the sleep: error with the captured output,
\* or the session
OpenCheck(c) ==
  /\ NAt(c, "o_check")
  /\ LET p == nobs[c].pid
         s == [socketPath |-> nobs[c].sock, cmd |-> p]
         failed == SignalFails(proc[p].st)
     IN /\ session' = [session EXCEPT ![c] = OpenReturns(s, failed)]
        /\ IF failed
             THEN NReturn(c, NResult("Open", "nbdkit process exited immediately",
                                     OpenOutput(captured[p])))
             ELSE NReturn(c, NResult("Open", "ok", ""))
  /\ UNCHANGED <<proc, captured, sockets, nextUUID, nextPid, panicked, closed>>
  /\ UNCHANGED <<clientVars, pathVars, snapVars, others>>

\* ---- WaitForReady
\* deadline := now + timeout; the first liveness check
WaitStart(c) ==
  /\ NAt(c, "idle")
  /\ session[c] # NilSession
  /\ IF Dead(session[c])
       THEN NReturn(c, NResult("WaitForReady",
                               "nbdkit process died before NBD server was ready", ""))
       ELSE /\ npc' = [npc EXCEPT ![c] = "w_loop"]
            /\ result' = [result EXCEPT ![c] = NoResult]
            /\ \E to \in 0..MaxTimeout : timeout' = [timeout EXCEPT ![c] = to]
            /\ elapsed' = [elapsed EXCEPT ![c] = 0]
            /\ nobs' = [nobs EXCEPT ![c] =
                 [NObsInit EXCEPT !.sockAtCall = session[c].socketPath \in sockets]]
  /\ UNCHANGED <<proc, captured, sockets, nextUUID, nextPid, session,
                 panicked, closed>>
  /\ UNCHANGED <<clientVars, pathVars, snapVars, others>>

\* for time.Now().Before(deadline)
LoopCond(e, to) == e < to

\* head of the loop and the liveness check of the iteration; after the
\* loop the final liveness check and the timeout error
WaitPoll(c) ==
  /\ NAt(c, "w_loop")
  /\ LET dead == Dead(session[c])
         details == ErrorDetails(Captured(session[c]))
     IN IF LoopCond(elapsed[c], timeout[c])
          THEN IF dead
                 THEN NReturn(c, NResult("WaitForReady",
                        "nbdkit process died while waiting for NBD server", details))
                 ELSE /\ npc' = [npc EXCEPT ![c] = "w_stat"]
                      /\ UNCHANGED <<result, nobs, timeout, elapsed>>
          ELSE IF dead
                 THEN NReturn(c, NResult("WaitForReady", "nbdkit process died", details))
                 ELSE NReturn(c, NResult("WaitForReady", "NBD server not ready", details))
  /\ UNCHANGED <<proc, captured, sockets, nextUUID, nextPid, session,
                 panicked, closed>>
  /\ UNCHANGED <<clientVars, pathVars, snapVars, others>>

\* os.Stat(s.socketPath), then the sleep of one interval
WaitStat(c) ==
  /\ NAt(c, "w_stat")
  /\ IF session[c].socketPath \in sockets
       THEN NReturn(c, NResult("WaitForReady", "ok", ""))
       ELSE /\ npc' = [npc EXCEPT ![c] = "w_loop"]
            /\ elapsed' = [elapsed EXCEPT ![c] = elapsed[c] + 1]
            /\ UNCHANGED <<result, nobs, timeout>>
  /\ UNCHANGED <<proc, captured, sockets, nextUUID, nextPid, session,
                 panicked, closed>>
  /\ UNCHANGED <<clientVars, pathVars, snapVars, others>>

\* ---- Close
\* if s == nil { return }
CloseIsNoop_NoNilCheck(s) == FALSE

CloseIsNoop(s) == s = NilSession

\* Process.Kill() and Process.Wait() after the grace period
KillAndWait_NoKill(st) == st

KillAndWait(st) == "reaped"

\* nil check; with a process: Signal(os.Interrupt), go cmd.Wait()
CloseStart(c) ==
  /\ NAt(c, "idle")
  /\ IF CloseIsNoop(session[c])
       THEN /\ NReturn(c, NResult("Close", "nil session", ""))
            /\ UNCHANGED panicked
       ELSE IF session[c] = NilSession
         THEN /\ panicked' = TRUE
              /\ UNCHANGED <<npc, result, nobs, timeout, elapsed>>
         ELSE /\ IF HasProcess(session[c])
                   THEN /\ npc' = [npc EXCEPT ![c] = "k_select"]
                        /\ nobs' = [nobs EXCEPT ![c] =
                                      [NObsInit EXCEPT !.sent = <<"interrupt">>]]
                   ELSE /\ npc' = [npc EXCEPT ![c] = "k_remove"]
                        /\ nobs' = [nobs EXCEPT ![c] = NObsInit]
              /\ result' = [result EXCEPT ![c] = NoResult]
              /\ UNCHANGED <<panicked, timeout, elapsed>>
  /\ UNCHANGED <<proc, captured, sockets, nextUUID, nextPid, session, closed>>
  /\ UNCHANGED <<clientVars, pathVars, snapVars, others>>

\* case <-done: cmd.Wait() has returned (the process had ended, or Wait had
\* been called before)
CloseDone(c) ==
  /\ NAt(c, "k_select")
  /\ LET p == session[c].cmd
     IN /\ proc[p].st \in {"exited", "reaped"}
        /\ proc' = [proc EXCEPT ![p].st = "reaped"]
  /\ npc' = [npc EXCEPT ![c] = "k_remove"]
  /\ UNCHANGED <<captured, sockets, nextUUID, nextPid, session, timeout,
                 elapsed, result, panicked, nobs, closed>>
  /\ UNCHANGED <<clientVars, pathVars, snapVars, others>>

\* case <-time.After(5 * time.Second): the process is still running
CloseTimeout(c) ==
  /\ NAt(c, "k_select")
  /\ LET p == session[c].cmd
     IN /\ proc[p].st = "running"
        /\ proc' = [proc EXCEPT ![p].st = KillAndWait(proc[p].st)]
  /\ npc' = [npc EXCEPT ![c] = "k_remove"]
  /\ nobs' = [nobs EXCEPT ![c].sent = nobs[c].sent \o <<"kill">>]
  /\ UNCHANGED <<captured, sockets, nextUUID, nextPid, session, timeout,
                 elapsed, result, panicked, closed>>
  /\ UNCHANGED <<clientVars, pathVars, snapVars, others>>

\* if s.socketPath != "" { os.Remove(s.socketPath) }
CloseRemove(c) ==
  /\ NAt(c, "k_remove")
  /\ sockets' = sockets \ {session[c].socketPath}
  /\ closed' = closed \cup {session[c]}
  /\ NReturn(c, NResult("Close", "ok", ""))
  /\ UNCHANGED <<proc, captured, nextUUID, nextPid, session, panicked>>
  /\ UNCHANGED <<clientVars, pathVars, snapVars, others>>

\* ---- the caller's context
\* exec.CommandContext(ctx, "nbdkit", ...): the process is killed when ctx
\* is done before it has ended
KilledByContext(st) == IF st = "running" THEN "exited" ELSE st

\* the process started with the context caller c gave to Open
ContextProcess(c) ==
  IF npc[c] = "o_check" THEN nobs[c].pid ELSE session[c].cmd

\* The context caller c gave to Open is cancelled or reaches its deadline
\* while Open sleeps or WaitForReady polls.  The process is killed; a
\* killed process writes nothing more and leaves its socket file behind.
\* Neither the time.Sleep of Open nor WaitForReady, which takes no context,
\* looks at ctx.
CtxDone(c) ==
  /\ ~panicked
  /\ npc[c] \in {"o_check", "w_loop", "w_stat"}
  /\ ~nctx[c]
  /\ nctx' = [nctx EXCEPT ![c] = TRUE]
  /\ LET p == ContextProcess(c)
     IN proc' = [proc EXCEPT ![p].st = KilledByContext(proc[p].st)]
  /\ UNCHANGED <<captured, sockets, nextUUID, nextPid, session, npc, timeout,
                 elapsed, result, panicked, nobs, closed>>
  /\ UNCHANGED <<clientVars, pathVars, snapVars, diskVars, taskVars, later>>

InitNBD == ClientIdle /\ NBDIdle /\ PathIdle /\ SnapIdle /\ OthersIdle

NextNBD ==
  \/ \E p \in Ids : SocketAppears(p)
  \/ \E p \in Ids : ProcExits(p)
  \/ \E c \in Callers :
       \/ OpenStart(c)
       \/ OpenCheck(c)
       \/ WaitStart(c)
       \/ WaitPoll(c)
       \/ WaitStat(c)
       \/ CloseStart(c)
       \/ CloseDone(c)
       \/ CloseTimeout(c)
       \/ CloseRemove(c)

SpecNBD == InitNBD /\ [][NextNBD]_vars

\* Close runs to its end once called: the goroutine in Close is scheduled.
CloseProgress(c) == CloseDone(c) \/ CloseTimeout(c) \/ CloseRemove(c)

SpecNBDLive == SpecNBD /\ \A c \in Callers : WF_vars(CloseProgress(c))

\* the export sessions with callers whose context may become done
NextNBDCtx == NextNBD \/ \E c \in Callers : CtxDone(c)

SpecNBDCtx == InitNBD /\ [][NextNBDCtx]_vars

\* ---- a session used by two goroutines
\* *NBDKitSession is a pointer and its methods take no lock: caller c gives
\* the session it holds to caller d, who may close it while c waits.
Handover(c, d) ==
  /\ ~panicked
  /\ c # d
  /\ npc[c] = "idle" /\ npc[d] = "idle"
  /\ session[c] # NilSession /\ session[c] \notin closed
  /\ session[d] = NilSession \/ session[d] \in closed
  /\ session' = [session EXCEPT ![d] = session[c]]
  /\ UNCHANGED <<proc, captured, sockets, nextUUID, nextPid, npc, timeout,
                 elapsed, result, panicked, nobs, closed>>
  /\ UNCHANGED <<clientVars, pathVars, snapVars, others>>

NextNBDShared == NextNBD \/ \E c, d \in Callers : Handover(c, d)

SpecNBDShared == InitNBD /\ [][NextNBDShared]_vars

\* ------------------------------------------------ export sessions: claims
\* caller c leaves position l in this step
NLeaves(c, l) == npc[c] = l /\ npc'[c] # l

\* the process of the session c holds has ended
Ended(c) == HasProcess(session[c]) /\ proc[session[c].cmd].st \in {"exited", "reaped"}

\* the errors of WaitForReady that report the end of the process
DiedKinds ==
  {"nbdkit process died before NBD server was ready",
   "nbdkit process died while waiting for NBD server",
   "nbdkit process died"}

\* WaitForReady of caller c returns in this step
WaitReturns(c) ==
  /\ npc'[c] = "idle"
  /\ result'[c].op = "WaitForReady"
  /\ \/ npc[c] \in {"w_loop", "w_stat"}
     \/ npc[c] = "idle" /\ result'[c] # result[c]

\* Close of caller c is past its nil check and has not returned
InClose(c) == npc[c] \in {"k_select", "k_remove"}

\* C11: Close never panics, on a nil session it returns at once and touches
\* nothing, on a non-nil session (closed before or not, process ended or
\* not) it returns only through the removal of the socket file, and once
\* called it returns.
C11_CloseStep ==
  \A c \in Callers :
    /\ (npc[c] = "idle" /\ npc'[c] = "idle" /\ result'[c] # result[c]
          /\ result'[c].op = "Close") =>
         /\ session[c] = NilSession
         /\ UNCHANGED <<proc, sockets, closed>>
    /\ (NLeaves(c, "idle") /\ InClose(c)') => session[c] # NilSession
    /\ (InClose(c) /\ npc'[c] = "idle") =>
         /\ npc[c] = "k_remove"
         /\ session[c].socketPath \notin sockets'
         /\ result'[c] = NResult("Close", "ok", "")

C11_CloseTotal ==
  /\ [](~panicked)
  /\ [][C11_CloseStep]_vars
  /\ \A c \in Callers : InClose(c) ~> (npc[c] = "idle")

\* a second Close on the same session, past the wait for its process
C11_Witness ==
  \E c \in Callers :
    /\ npc[c] = "k_remove" /\ session[c] \in closed
    /\ proc[session[c].cmd].st = "reaped"

\* C12: Close sends the interrupt first, kills only a process that is still
\* running when the grace period ends, removes the socket file only after
\* the wait for the process has returned, and returns with the process no
\* longer running.
C12_CloseStep ==
  \A c \in Callers :
    LET p == session[c].cmd
    IN /\ (NLeaves(c, "idle") /\ npc'[c] = "k_select") =>
            nobs'[c].sent = <<"interrupt">>
       /\ NLeaves(c, "k_select") =>
            /\ npc'[c] = "k_remove"
            /\ nobs[c].sent = <<"interrupt">>
            /\ proc'[p].st = "reaped"
            /\ nobs'[c].sent = IF proc[p].st = "running"
                                 THEN <<"interrupt", "kill">>
                                 ELSE <<"interrupt">>
       /\ NLeaves(c, "k_remove") =>
            /\ npc'[c] = "idle"
            /\ HasProcess(session[c]) => proc[p].st = "reaped" /\ proc'[p].st = "reaped"
            /\ session[c].socketPath \notin sockets'

C12_CloseGracefulThenKill == [][C12_CloseStep]_vars

\* the grace period ended with the process running: it was killed and waited for
C12_Witness ==
  \E c \in Callers :
    /\ npc[c] = "k_remove"
    /\ nobs[c].sent = <<"interrupt", "kill">>
    /\ proc[session[c].cmd].st = "reaped"

\* C13: when WaitForReady returns and the process has ended without its
\* socket file ever having existed, the result is one of the errors that
\* report the end of the process, with the captured output in it.
C13_WaitStep ==
  \A c \in Callers :
    (/\ WaitReturns(c)
     /\ Ended(c)
     /\ ~proc[session[c].cmd].everSock
     /\ npc[c] = "idle" \/ timeout[c] > 0) =>
       /\ result'[c].kind \in DiedKinds
       /\ result'[c].text = ErrorDetails(Captured(session[c]))

C13_ExitReportedNotTimeout == [][C13_WaitStep]_vars

\* C14: WaitForReady returns success, one of the process errors or the
\* timeout error; success only after the socket file was seen, a process error only
\* after a failed liveness check; and it returns success when the socket
\* file existed at the call and the process is running, whatever the
\* timeout.
C14_WaitStep ==
  \A c \in Callers :
    WaitReturns(c) =>
      /\ result'[c].kind \in DiedKinds \cup {"ok", "NBD server not ready"}
      /\ result'[c].kind = "ok" =>
           npc[c] = "w_stat" /\ session[c].socketPath \in sockets
      /\ result'[c].kind \in DiedKinds => Dead(session[c])
      /\ (/\ npc[c] # "idle"
          /\ nobs[c].sockAtCall
          /\ proc[session[c].cmd].st = "running") => result'[c].kind = "ok"

C14_WaitOutcomes == [][C14_WaitStep]_vars

\* C15: WaitForReady reports a session ready only if it has not been closed
\* and no liveness check on its process can have failed; a closed session
\* stays closed; Open hands out no session next to an error.
C15_SessionStep ==
  \A c \in Callers :
    /\ (WaitReturns(c) /\ result'[c].kind = "ok") =>
         /\ session[c] \notin closed
         /\ ~Dead(session[c])
    /\ (WaitReturns(c) /\ session[c] \in closed) => result'[c].kind \in DiedKinds
    /\ closed \subseteq closed'
    /\ (result'[c].op = "Open" /\ npc'[c] = "idle" /\ result'[c].kind # "ok") =>
         session'[c] = NilSession
    /\ (result'[c].op = "Open" /\ npc'[c] = "idle" /\ result'[c].kind = "ok") =>
         session'[c] # NilSession /\ session'[c] \notin closed'

C15_SessionLifecycle == [][C15_SessionStep]_vars

\* WaitForReady on a closed session has reported the end of the process,
\* while the other caller's session was reported ready
C15_Witness ==
  \E c, d \in Callers :
    /\ npc[c] = "idle" /\ session[c] \in closed
    /\ result[c].op = "WaitForReady" /\ result[c].kind \in DiedKinds
    /\ npc[d] = "idle" /\ result[d] = NResult("WaitForReady", "ok", "")

\* C16: at the liveness check of Open, a process that has ended gives a nil
\* session and the error with the captured output; a session is returned
\* only for a process that passed the check.
C16_OpenStep ==
  \A c \in Callers :
    NLeaves(c, "o_check") =>
      LET p == nobs[c].pid
      IN /\ proc[p].st # "running" =>
              /\ session'[c] = NilSession
              /\ result'[c] = NResult("Open", "nbdkit process exited immediately",
                                      OpenOutput(captured[p]))
         /\ session'[c] # NilSession => ~SignalFails(proc[p].st)

C16_OpenExitedProcess == [][C16_OpenStep]_vars

\* C17: the sessions of two callers never share a socket path or a process;
\* a successful start in Open creates one process, with a socket path not
\* given to any process before; the steps of a Close change no process but
\* its own and remove no socket file but its own.
C17_Distinct ==
  \A c, d \in Callers :
    (c # d /\ session[c] # NilSession /\ session[d] # NilSession) =>
      /\ session[c].socketPath # session[d].socketPath
      /\ session[c].cmd # session[d].cmd

C17_Step ==
  \A c \in Callers :
    /\ (NLeaves(c, "idle") /\ npc'[c] = "o_check") =>
         /\ nextPid' = nextPid + 1
         /\ \A q \in Ids : q # nextPid => proc'[q] = proc[q]
         /\ proc[nextPid].st = "none" /\ proc'[nextPid].st = "running"
         /\ \A q \in Ids : q # nextPid => proc[q].sock # proc'[nextPid].sock
    /\ ((InClose(c) \/ InClose(c)') /\ npc'[c] # npc[c]) =>
         /\ \A q \in Ids : q # session[c].cmd => proc'[q] = proc[q]
         /\ sockets \ sockets' \subseteq {session[c].socketPath}
         /\ \A d \in Callers :
              (d # c /\ session[d] # NilSession /\ session[d] \notin closed
                 /\ session[d].socketPath \in sockets) =>
                   session[d].socketPath \in sockets'

C17_SessionsIsolated == []C17_Distinct /\ [][C17_Step]_vars

\* one caller's Close has returned while the other caller's session is
\* live, its process running and its socket file in place
C17_Witness ==
  \E c, d \in Callers :
    /\ c # d
    /\ npc[c] = "idle" /\ result[c] = NResult("Close", "ok", "")
    /\ session[c] \in closed
    /\ session[d] # NilSession /\ session[d] \notin closed
    /\ proc[session[d].cmd].st = "running"
    /\ session[d].socketPath \in sockets

\* ================================================== delta disk paths
\* getBaseDiskPath of VMService and of Inspector.  A path is
\* a sequence of characters; Go's 0-based indexing s[i] and slicing
\* s[lo:hi] are kept, and an index or a slice out of range is the panic it
\* is in Go.

\* the characters of the paths explored, next to those of the suffix
BodyChars == {"-", "0", "9", ":"}

Vmdk == <<".", "v", "m", "d", "k">>

\* how a path explored ends
Tails == {<<>>, Vmdk, <<"v", "m", "d", "k">>}

\* the bodies of the paths explored: up to MaxBody characters
Bodies == UNION {[1..k -> BodyChars] : k \in 0..MaxBody}

\* the byte of a character
Byte(ch) ==
  CASE ch = "-" -> 45
    [] ch = "." -> 46
    [] ch = "0" -> 48
    [] ch = "1" -> 49
    [] ch = "4" -> 52
    [] ch = "9" -> 57
    [] ch = ":" -> 58
    [] ch = "d" -> 100
    [] ch = "k" -> 107
    [] ch = "m" -> 109
    [] ch = "v" -> 118

\* what a call that panicked leaves in place of its result
PathPanic == <<"panic: index out of range">>

InRange(s, i) == 0 <= i /\ i < Len(s)

\* s[i]
Index(s, i) == s[i + 1]

\* s[lo:hi]
Slice(s, lo, hi) == SubSeq(s, lo + 1, hi)

SliceOK(s, lo, hi) == 0 <= lo /\ lo <= hi /\ hi <= Len(s)

\* prefix[i] < '0' || prefix[i] > '9'
NotDigit(ch) == Byte(ch) < Byte("0") \/ Byte(ch) > Byte("9")

\* for i := len(prefix) - 6; ...: the first index the loop looks at
FirstDigit_OffByOne(prefix) == Len(prefix) - 5

FirstDigit(prefix) == Len(prefix) - 6

\* the loop that sets isAllDigits, from index i on; "panic" when an index
\* is out of range
RECURSIVE DigitLoop(_, _)
DigitLoop(prefix, i) ==
  IF ~(i < Len(prefix)) THEN "true"
  ELSE IF ~InRange(prefix, i) THEN "panic"
  ELSE IF NotDigit(Index(prefix, i)) THEN "false"
  ELSE DigitLoop(prefix, i + 1)

\* the body shared, character for character, by the two copies of
\* getBaseDiskPath
BaseDiskPathBody(path) ==
  LET vmdkIndex == Len(path) - Len(Vmdk)
  IN IF vmdkIndex < 0 \/ Slice(path, vmdkIndex, Len(path)) # Vmdk
       THEN path
       ELSE LET prefix == Slice(path, 0, vmdkIndex)
            IN IF Len(prefix) >= 7 /\ Index(prefix, Len(prefix) - 7) = "-"
                 THEN LET isAllDigits == DigitLoop(prefix, FirstDigit(prefix))
                      IN IF isAllDigits = "panic" THEN PathPanic
                         ELSE IF isAllDigits = "true"
                           THEN IF SliceOK(prefix, 0, Len(prefix) - 7)
                                  THEN Slice(prefix, 0, Len(prefix) - 7) \o Vmdk
                                  ELSE PathPanic
                           ELSE path
                 ELSE path

\* func (s *VMService) getBaseDiskPath(diskPath string) string
getBaseDiskPath(path) == BaseDiskPathBody(path)

\* func (i *Inspector) getBaseDiskPath(diskPath string) string
InspectorGetBaseDiskPath(path) == BaseDiskPathBody(path)

\* both copies are called on the path
ComputeBasePath ==
  /\ pathPc = "input"
  /\ basePath' = getBaseDiskPath(diskPath)
  /\ inspBasePath' = InspectorGetBaseDiskPath(diskPath)
  /\ pathPc' = "done"
  /\ UNCHANGED diskPath
  /\ UNCHANGED <<clientVars, nbdVars, snapVars, others>>

InitPath ==
  /\ ClientIdle /\ NBDIdle /\ SnapIdle /\ OthersIdle
  /\ \E b \in Bodies, t \in Tails : diskPath = b \o t
  /\ basePath = <<>>
  /\ inspBasePath = <<>>
  /\ pathPc = "input"

NextPath == ComputeBasePath

SpecPath == InitPath /\ [][NextPath]_vars

\* ------------------------------------------------ delta disk paths: claims
Digits == {"0", "1", "2", "3", "4", "5", "6", "7", "8", "9"}

EndsWith(p, suffix) ==
  Len(p) >= Len(suffix) /\ SubSeq(p, Len(p) - Len(suffix) + 1, Len(p)) = suffix

\* p is stem, "-", six digits, ".vmdk"
HasDeltaMarker(p) ==
  /\ EndsWith(p, Vmdk)
  /\ LET stem == SubSeq(p, 1, Len(p) - Len(Vmdk))
     IN /\ Len(stem) >= 6 + 1
        /\ stem[Len(stem) - 6] = "-"
        /\ \A i \in (Len(stem) - 6 + 1)..Len(stem) : stem[i] \in Digits

\* the reference: the hyphen and the six digits removed, or the path itself
ReferenceBasePath(p) ==
  IF HasDeltaMarker(p)
    THEN SubSeq(p, 1, Len(p) - Len(Vmdk) - 6 - 1) \o Vmdk
    ELSE p

\* C18: for every path, both copies of getBaseDiskPath return the path with
\* the hyphen-and-six-digits segment before ".vmdk" removed when it has one
\* and the path itself otherwise, and never panic.
C18_BaseDiskPathIsReference ==
  pathPc = "done" =>
    /\ basePath = ReferenceBasePath(diskPath)
    /\ inspBasePath = ReferenceBasePath(diskPath)
    /\ basePath # PathPanic /\ inspBasePath # PathPanic

\* a delta path with a stem has been reduced to its base path
C18_Witness ==
  /\ pathPc = "done"
  /\ HasDeltaMarker(diskPath)
  /\ Len(diskPath) > Len(Vmdk) + 7
  /\ basePath # diskPath
  /\ basePath = SubSeq(diskPath, 1, Len(diskPath) - Len(Vmdk) - 7) \o Vmdk

\* ================================================== snapshot search
\* VMService.findSnapshotInTree and the findSnapshot closure of
\* VMService.FindSnapshotByName.  A snapshot forest is
\* written in pre-order: node i has depth snapDepth[i] and name snapName[i];
\* a []VirtualMachineSnapshotTree is the sequence of its nodes.

SnapNames == {"A", "B"}

\* the names searched for: those of the nodes and one no node has
SearchNames == SnapNames \cup {"X"}

\* the depth sequences of the forests of n nodes
IsForest(d) ==
  /\ Len(d) > 0 => d[1] = 1
  /\ \A i \in 1..(Len(d) - 1) : d[i + 1] <= d[i] + 1

Forests == UNION {{d \in [1..n -> 1..MaxNodes] : IsForest(d)} : n \in 0..MaxNodes}

\* node j lies in the subtree below node i
Below(d, i, j) == i < j /\ \A k \in (i + 1)..j : d[k] > d[i]

SeqOfSet(S) ==
  LET RECURSIVE Asc(_)
      Asc(T) == IF T = {} THEN <<>>
                ELSE LET m == CHOOSE x \in T : \A y \in T : x <= y
                     IN <<m>> \o Asc(T \ {m})
  IN Asc(S)

\* vmProps.Snapshot.RootSnapshotList
RootSnapshotList(d) == SeqOfSet({i \in 1..Len(d) : d[i] = 1})

\* snapshots[idx].ChildSnapshotList
ChildSnapshotList(d, i) ==
  SeqOfSet({j \in 1..Len(d) : Below(d, i, j) /\ d[j] = d[i] + 1})

\* snapshots[idx].Snapshot, the managed object reference of the node
SnapshotRef(i) == <<"snapshot", i>>

\* len(snapshots[idx].ChildSnapshotList) > 0
HasChildren_Never(d, i) == FALSE

HasChildren(d, i) == Len(ChildSnapshotList(d, i)) > 0

\* for idx := range snapshots: the order in which the elements are visited
RangeOrder_Reversed(list) == [k \in 1..Len(list) |-> list[Len(list) + 1 - k]]

RangeOrder(list) == list

\* findSnapshotInTree: the node found and a nil error, or nil and the error
TreeFound(i) == [node |-> i, err |-> ""]

TreeNotFound == [node |-> 0, err |-> "snapshot not found"]

RECURSIVE findSnapshotInTree(_, _, _, _)
findSnapshotInTree(d, names, snapshots, name) ==
  LET RECURSIVE Loop(_)
      Loop(order) ==
        IF order = <<>> THEN TreeNotFound
        ELSE LET i == Head(order)
             IN IF names[i] = name THEN TreeFound(i)
                ELSE LET sub == IF HasChildren(d, i)
                                  THEN findSnapshotInTree(d, names,
                                         ChildSnapshotList(d, i), name)
                                  ELSE TreeNotFound
                     IN IF HasChildren(d, i) /\ sub.err = ""
                          THEN sub
                          ELSE Loop(Tail(order))
  IN Loop(RangeOrder(snapshots))

\* the findSnapshot closure: the reference found, or nil
NilRef == <<>>

RECURSIVE findSnapshot(_, _, _, _)
findSnapshot(d, names, tree, snapshotName) ==
  LET RECURSIVE Loop(_)
      Loop(order) ==
        IF order = <<>> THEN NilRef
        ELSE LET i == Head(order)
             IN IF names[i] = snapshotName THEN SnapshotRef(i)
                ELSE LET ref == IF HasChildren(d, i)
                                  THEN findSnapshot(d, names,
                                         ChildSnapshotList(d, i), snapshotName)
                                  ELSE NilRef
                     IN IF HasChildren(d, i) /\ ref # NilRef
                          THEN ref
                          ELSE Loop(Tail(order))
  IN Loop(RangeOrder(tree))

\* both searches run on the root list of the forest
SearchSnapshot ==
  /\ snapPc = "input"
  /\ treeResult' =
       findSnapshotInTree(snapDepth, snapName, RootSnapshotList(snapDepth), searchName)
  /\ closureResult' =
       findSnapshot(snapDepth, snapName, RootSnapshotList(snapDepth), searchName)
  /\ snapPc' = "done"
  /\ UNCHANGED <<snapDepth, snapName, searchName>>
  /\ UNCHANGED <<clientVars, nbdVars, pathVars, others>>

InitSnap ==
  /\ ClientIdle /\ NBDIdle /\ PathIdle /\ OthersIdle
  /\ snapDepth \in Forests
  /\ snapName \in [1..Len(snapDepth) -> SnapNames]
  /\ searchName \in SearchNames
  /\ treeResult = 0
  /\ closureResult = 0
  /\ snapPc = "input"

NextSnap == SearchSnapshot

SpecSnap == InitSnap /\ [][NextSnap]_vars

\* ------------------------------------------------ snapshot search: claims
\* the nodes that carry the name searched for
Matches == {i \in 1..Len(snapDepth) : snapName[i] = searchName}

\* C19: the search returns a node that carries the name when some node of
\* the forest, at any depth, carries it, and the not-found error exactly
\* when none does.
C19_FoundIffPresent ==
  snapPc = "done" =>
    /\ Matches # {} => treeResult.err = "" /\ treeResult.node \in Matches
    /\ Matches = {} => treeResult = TreeNotFound
    /\ Matches # {} => closureResult \in {SnapshotRef(i) : i \in Matches}
    /\ Matches = {} => closureResult = NilRef

\* the only node that carries the name is neither a root nor the child of a root
C19_Witness ==
  /\ snapPc = "done"
  /\ \E i \in Matches :
       /\ Matches = {i}
       /\ snapDepth[i] >= 3
       /\ treeResult = TreeFound(i)

\* C20: with several nodes of the name, the node returned is the first in
\* depth-first pre-order, and the closure returns the reference of the node
\* findSnapshotInTree returns (nil when that one returns the error).
C20_FirstInPreOrder ==
  snapPc = "done" =>
    /\ Matches # {} => treeResult = TreeFound(CHOOSE i \in Matches : \A j \in Matches : i <= j)
    /\ closureResult = IF treeResult.err = "" THEN SnapshotRef(treeResult.node) ELSE NilRef

\* several nodes carry the name, one below a sibling subtree of another;
\* the first in pre-order is returned
C20_Witness ==
  /\ snapPc = "done"
  /\ Cardinality(Matches) >= 2
  /\ \E i \in Matches :
       /\ \A j \in Matches : i <= j
       /\ snapDepth[i] >= 2
       /\ \E j \in Matches : j > i /\ snapDepth[j] < snapDepth[i]
       /\ treeResult = TreeFound(i)
       /\ closureResult = SnapshotRef(i)

\* ================================================== snapshot disk resolution
\* VMService.GetSnapshotDiskInfo and VMService.FindSnapshotByName.  The
\* replies of vCenter are inputs: each is chosen at the step that reads it.
\* File names are sequences of characters; an error is the sequence of the
\* pieces of its message, outermost first.

VmName == "web01"

\* vm.Reference().Value
VmMoref == "vm-101"

\* "[ds1] web01/web01-000004.vmdk"
DeltaFile ==
  <<"[", "d", "s", "1", "]", " ", "w", "e", "b", "0", "1", "/", "w", "e",
    "b", "0", "1", "-", "0", "0", "0", "0", "0", "4", ".", "v", "m", "d",
    "k">>

\* "[ds1] web01/web01.vmdk"
BaseFile ==
  <<"[", "d", "s", "1", "]", " ", "w", "e", "b", "0", "1", "/", "w", "e",
    "b", "0", "1", ".", "v", "m", "d", "k">>

\* "[ds1] web01/web01_1-000004.vmdk", the delta file of a second disk
SecondDeltaFile ==
  <<"[", "d", "s", "1", "]", " ", "w", "e", "b", "0", "1", "/", "w", "e",
    "b", "0", "1", "_", "1", "-", "0", "0", "0", "0", "0", "4", ".", "v",
    "m", "d", "k">>

\* backing.FileName of the disks explored
FileNames == {DeltaFile, BaseFile, SecondDeltaFile}

\* backing.Parent: nil, or a backing with a FileName, empty or not
NoParent == [set |-> FALSE, fileName |-> <<>>]

Parents ==
  {NoParent} \cup {[set |-> TRUE, fileName |-> f] : f \in {<<>>, BaseFile, DeltaFile}}

\* the elements of vmMo.Config.Hardware.Device: a device that is no
\* VirtualDisk, a VirtualDisk with another backing than
\* VirtualDiskFlatVer2BackingInfo, a VirtualDisk with that backing
DeviceValues ==
  {[disk |-> FALSE, flat |-> FALSE, fileName |-> <<>>, parent |-> NoParent],
   [disk |-> TRUE, flat |-> FALSE, fileName |-> BaseFile, parent |-> NoParent]}
  \cup {[disk |-> TRUE, flat |-> TRUE, fileName |-> f, parent |-> q] :
          f \in FileNames, q \in Parents}

DeviceLists == UNION {[1..n -> DeviceValues] : n \in 0..MaxDevices}

\* vmMo.Snapshot when it is not nil
SnapshotInfos ==
  UNION {{[depth |-> d, names |-> nm] : nm \in [1..Len(d) -> SnapNames]} :
           d \in Forests}

\* InventoryPath of the objects the finder returns
InventoryPaths == {"", "/dc1/host/cluster1", "/dc1/host/cluster1/esx1"}

GErr(pieces) == pieces

NoError == <<>>

\* return nil, err
DiskFailure(o, e) == [op |-> o, info |-> <<>>, err |-> e]

\* return info, nil
DiskSuccess(o, info) == [op |-> o, info |-> <<info>>, err |-> NoError]

\* device.(*vimtypes.VirtualDisk)
IsVirtualDisk(device) == device.disk

\* disk.Backing.(*vimtypes.VirtualDiskFlatVer2BackingInfo)
IsFlatVer2_AnyBacking(device) == TRUE

IsFlatVer2(device) == device.flat

\* backing.Parent != nil && backing.Parent.FileName != ""
HasParentFile_NilOnly(backing) == backing.parent.set

HasParentFile(backing) == backing.parent.set /\ backing.parent.fileName # <<>>

\* baseDiskPaths = append(baseDiskPaths, baseDiskPath)
AppendBase_Prepend(baseDiskPaths, backing, baseDiskPath) ==
  <<baseDiskPath>> \o baseDiskPaths

AppendBase_ParentOnly(baseDiskPaths, backing, baseDiskPath) ==
  IF backing.parent.set THEN Append(baseDiskPaths, baseDiskPath) ELSE baseDiskPaths

AppendBase(baseDiskPaths, backing, baseDiskPath) ==
  Append(baseDiskPaths, baseDiskPath)

\* for _, device := range vmMo.Config.Hardware.Device, from element i on
RECURSIVE CollectDisks(_, _, _, _)
CollectDisks(devices, i, diskPaths, baseDiskPaths) ==
  IF i > Len(devices) THEN [diskPaths |-> diskPaths, baseDiskPaths |-> baseDiskPaths]
  ELSE LET device == devices[i]
       IN IF IsVirtualDisk(device) /\ IsFlatVer2(device)
            THEN LET fileName == device.fileName
                     baseDiskPath == IF HasParentFile(device)
                                       THEN device.parent.fileName
                                       ELSE getBaseDiskPath(fileName)
                 IN CollectDisks(devices, i + 1, Append(diskPaths, fileName),
                                 AppendBase(baseDiskPaths, device, baseDiskPath))
            ELSE CollectDisks(devices, i + 1, diskPaths, baseDiskPaths)

\* vmMo.Snapshot == nil
SnapshotIsNil_OrEmpty(snapshot) ==
  snapshot = <<>> \/ Len(snapshot[1].depth) = 0

SnapshotIsNil(snapshot) == snapshot = <<>>

ErrNoSnapshots == GErr(<<"VM '", VmName, "' has no snapshots">>)

\* fmt.Errorf("failed to find snapshot '%s': %w", snapshotName, err)
ErrFindSnapshot(name) ==
  GErr(<<"failed to find snapshot '", name, "': ", "snapshot '", name, "' not found">>)

\* fmt.Errorf("snapshot '%s' not found on VM '%s'", snapshotName, vmName)
ErrNotFoundOnVM(name) ==
  GErr(<<"snapshot '", name, "' not found on VM '", VmName, "'">>)

ErrNoDisks == GErr(<<"no disks found for VM '", VmName, "'">>)

ErrNoBaseDisks == GErr(<<"no base disk paths found for VM '", VmName, "'">>)

ErrNoComputeResource ==
  GErr(<<"failed to get compute resource path for VM '", VmName, "'">>)

\* a panic ends the call without a result
DiskPanic(o) ==
  [op |-> o, info |-> <<>>, err |-> GErr(<<"panic: nil pointer dereference">>)]

\* the checks of len(diskPaths) and len(baseDiskPaths)
ListError(lists) ==
  IF Len(lists.diskPaths) = 0 THEN ErrNoDisks
  ELSE IF Len(lists.baseDiskPaths) = 0 THEN ErrNoBaseDisks
  ELSE NoError

DiskReturn(r) ==
  /\ gpc' = "done"
  /\ gResult' = r

\* findVMByName, GetClient and RetrieveOne: an error of one of them is
\* returned, or the properties of the VM have arrived
DiskLookup ==
  /\ gpc = "start"
  /\ \E what \in {"find", "client", "retrieve", "ok"} :
       CASE what = "find" ->
              /\ DiskReturn(DiskFailure(gop, GErr(<<"VM not found">>)))
              /\ UNCHANGED gSnapshot
         [] what = "client" ->
              /\ DiskReturn(DiskFailure(gop, GErr(<<"failed to get vSphere client: ", "error">>)))
              /\ UNCHANGED gSnapshot
         [] what = "retrieve" ->
              /\ DiskReturn(DiskFailure(gop,
                   GErr(<<IF gop = "GetSnapshotDiskInfo"
                            THEN "failed to get VM properties: "
                            ELSE "failed to retrieve VM snapshots: ", "error">>)))
              /\ UNCHANGED gSnapshot
         [] what = "ok" ->
              /\ gpc' = "retrieved"
              /\ \E sn \in {<<>>} \cup {<<i>> : i \in SnapshotInfos} : gSnapshot' = sn
              /\ UNCHANGED gResult
  /\ UNCHANGED <<gop, gName, gDevices, gMoref, gDiskPaths, gBasePaths, gHost>>
  /\ UNCHANGED <<clientVars, nbdVars, pathVars, snapVars, taskVars, nctx, later>>

\* GetSnapshotDiskInfo: the nil check of vmMo.Snapshot and findSnapshotInTree;
\* vmMo.Snapshot is not read again once the snapshot is found
DiskFindSnapshot ==
  /\ gpc = "retrieved"
  /\ gop = "GetSnapshotDiskInfo"
  /\ IF SnapshotIsNil(gSnapshot)
       THEN /\ DiskReturn(DiskFailure(gop, ErrNoSnapshots))
            /\ UNCHANGED gMoref
       ELSE LET tree == gSnapshot[1]
                snapshotRef == findSnapshotInTree(tree.depth, tree.names,
                                 RootSnapshotList(tree.depth), gName)
            IN IF snapshotRef.err # ""
                 THEN /\ DiskReturn(DiskFailure(gop, ErrFindSnapshot(gName)))
                      /\ UNCHANGED gMoref
                 ELSE /\ gMoref' = SnapshotRef(snapshotRef.node)
                      /\ gpc' = "found"
                      /\ UNCHANGED gResult
  /\ gSnapshot' = IF gpc' = "found" THEN <<>> ELSE gSnapshot
  /\ UNCHANGED <<gop, gName, gDevices, gDiskPaths, gBasePaths, gHost>>
  /\ UNCHANGED <<clientVars, nbdVars, pathVars, snapVars, taskVars, nctx, later>>

\* FindSnapshotByName: the nil check of vmProps.Snapshot and the closure
DiskFindByName ==
  /\ gpc = "retrieved"
  /\ gop = "FindSnapshotByName"
  /\ IF SnapshotIsNil(gSnapshot)
       THEN /\ DiskReturn(DiskFailure(gop, ErrNoSnapshots))
            /\ UNCHANGED gMoref
       ELSE LET tree == gSnapshot[1]
                snapshotRef == findSnapshot(tree.depth, tree.names,
                                 RootSnapshotList(tree.depth), gName)
            IN IF snapshotRef = NilRef
                 THEN /\ DiskReturn(DiskFailure(gop, ErrNotFoundOnVM(gName)))
                      /\ UNCHANGED gMoref
                 ELSE /\ DiskReturn(DiskSuccess(gop, snapshotRef))
                      /\ gMoref' = snapshotRef
  /\ UNCHANGED gSnapshot
  /\ UNCHANGED <<gop, gName, gDevices, gDiskPaths, gBasePaths, gHost>>
  /\ UNCHANGED <<clientVars, nbdVars, pathVars, snapVars, taskVars, nctx, later>>

\* the loop over vmMo.Config.Hardware.Device and the two length checks;
\* vmMo.Config is a pointer, nil when vCenter sent no config
DiskCollect ==
  /\ gpc = "found"
  /\ \E configNil \in BOOLEAN :
       IF configNil
         THEN /\ DiskReturn(DiskPanic(gop))
              /\ UNCHANGED <<gDevices, gDiskPaths, gBasePaths>>
         ELSE \E devices \in DeviceLists :
                LET lists == CollectDisks(devices, 1, <<>>, <<>>)
                IN /\ gDevices' = devices
                   /\ gDiskPaths' = lists.diskPaths
                   /\ gBasePaths' = lists.baseDiskPaths
                   /\ IF ListError(lists) # NoError
                        THEN DiskReturn(DiskFailure(gop, ListError(lists)))
                        ELSE gpc' = "listed" /\ UNCHANGED gResult
  /\ UNCHANGED <<gop, gName, gSnapshot, gMoref, gHost>>
  /\ UNCHANGED <<clientVars, nbdVars, pathVars, snapVars, taskVars, nctx, later>>

\* what finder.ObjectReference may give: an error, an object of another
\* type than those accepted, or one of them with its InventoryPath
Lookups ==
  {[ok |-> FALSE, typeOK |-> FALSE, path |-> ""],
   [ok |-> TRUE, typeOK |-> FALSE, path |-> "/dc1/vm"]}
  \cup {[ok |-> TRUE, typeOK |-> TRUE, path |-> q] : q \in InventoryPaths}

\* the InventoryPath taken from a lookup: "" when the lookup fails or the
\* object has another type
PathOf(lookup) == IF lookup.ok /\ lookup.typeOK THEN lookup.path ELSE ""

\* ComputeResourcePath with the parent looked up for a VM without a host
ComputeResourcePath_NoHostCheck(hostSet, hostPath, parentOK, parentPath) ==
  IF hostPath # "" THEN hostPath
  ELSE IF parentOK THEN parentPath
  ELSE ""

\* computeResourcePath: from the host, else from the parent of the host
ComputeResourcePath(hostSet, hostPath, parentOK, parentPath) ==
  IF ~hostSet THEN ""
  ELSE IF hostPath # "" THEN hostPath
  ELSE IF parentOK THEN parentPath
  ELSE ""

\* if vmMo.Runtime.Host != nil: finder.ObjectReference of the host and the
\* InventoryPath of a *object.HostSystem
DiskHost ==
  /\ gpc = "listed"
  /\ \E hostSet \in BOOLEAN, host \in Lookups :
       gHost' = [looked |-> TRUE, set |-> hostSet,
                 path |-> IF hostSet THEN PathOf(host) ELSE ""]
  /\ gpc' = "hosted"
  /\ UNCHANGED <<gop, gName, gSnapshot, gDevices, gMoref, gDiskPaths,
                 gBasePaths, gResult>>
  /\ UNCHANGED <<clientVars, nbdVars, pathVars, snapVars, taskVars, nctx, later>>

\* the parent of the host, the check of computeResourcePath and the return
DiskCompute ==
  /\ gpc = "hosted"
  /\ \E parentOK \in BOOLEAN, parent \in Lookups :
       LET computeResourcePath ==
             ComputeResourcePath(gHost.set, gHost.path, parentOK, PathOf(parent))
       IN IF computeResourcePath = ""
            THEN DiskReturn(DiskFailure(gop, ErrNoComputeResource))
            ELSE DiskReturn(DiskSuccess(gop,
                   [VMMoref |-> VmMoref,
                    SnapshotMoref |-> gMoref,
                    DiskPaths |-> gDiskPaths,
                    BaseDiskPaths |-> gBasePaths,
                    ComputeResourcePath |-> computeResourcePath]))
  /\ UNCHANGED <<gop, gName, gSnapshot, gDevices, gMoref, gDiskPaths,
                 gBasePaths, gHost>>
  /\ UNCHANGED <<clientVars, nbdVars, pathVars, snapVars, taskVars, nctx, later>>

InitDisk ==
  /\ ClientIdle /\ NBDIdle /\ PathIdle /\ SnapIdle /\ TaskIdle /\ CtxIdle
  /\ LaterIdle
  /\ gop \in {"GetSnapshotDiskInfo", "FindSnapshotByName"}
  /\ gpc = "start"
  /\ gName \in SearchNames
  /\ gSnapshot = <<>>
  /\ gDevices = <<>>
  /\ gMoref = <<>>
  /\ gDiskPaths = <<>>
  /\ gBasePaths = <<>>
  /\ gHost = NoHost
  /\ gResult = NoDiskResult

NextDisk ==
  \/ DiskLookup
  \/ DiskFindSnapshot
  \/ DiskFindByName
  \/ DiskCollect
  \/ DiskHost
  \/ DiskCompute

SpecDisk == InitDisk /\ [][NextDisk]_vars

\* ------------------------------------------ snapshot disk resolution: claims
\* a disk device with the backing type that is recognized
Recognized(device) == device.disk /\ device.flat

\* the recognized disks of the VM, in the order of the device list
RecognizedDisks == SelectSeq(gDevices, Recognized)

\* the base path of a disk: the parent file recorded, else the reference
\* base path of its current path
BaseOf(device) ==
  IF device.parent.set /\ device.parent.fileName # <<>>
    THEN device.parent.fileName
    ELSE ReferenceBasePath(device.fileName)

\* GetSnapshotDiskInfo has returned a SnapshotDiskInfo
InfoReturned ==
  gpc = "done" /\ gResult.op = "GetSnapshotDiskInfo" /\ gResult.info # <<>>

\* GetSnapshotDiskInfo is past the loop over the devices
Enumerated ==
  /\ gop = "GetSnapshotDiskInfo"
  /\ \/ gpc = "listed"
     \/ gpc = "done" /\ (gResult.info # <<>> \/
          gResult.err \in {ErrNoDisks, ErrNoBaseDisks, ErrNoComputeResource})

\* C21: in a SnapshotDiskInfo returned, DiskPaths and BaseDiskPaths have the
\* same length, which is not zero, and at every index they hold the current
\* path of one disk and a base path of that same disk.
C21_PathsAligned ==
  InfoReturned =>
    LET info == gResult.info[1]
    IN /\ Len(info.DiskPaths) = Len(info.BaseDiskPaths)
       /\ Len(info.DiskPaths) > 0
       /\ Len(info.DiskPaths) = Len(RecognizedDisks)
       /\ \A i \in 1..Len(info.DiskPaths) :
            /\ info.DiskPaths[i] = RecognizedDisks[i].fileName
            /\ info.BaseDiskPaths[i] \in
                 {RecognizedDisks[i].parent.fileName,
                  ReferenceBasePath(RecognizedDisks[i].fileName)}
            /\ info.BaseDiskPaths[i] = BaseOf(RecognizedDisks[i])

\* two disks with different base paths have been returned
C21_Witness ==
  /\ InfoReturned
  /\ Len(gResult.info[1].DiskPaths) = 2
  /\ gResult.info[1].BaseDiskPaths[1] # gResult.info[1].BaseDiskPaths[2]
  /\ gResult.info[1].DiskPaths[1] # gResult.info[1].DiskPaths[2]

\* C22: once the devices are enumerated, the base path of every recognized
\* disk is the parent file name recorded, taken as it is, when one is
\* recorded and not empty, and else the current path without its delta
\* marker.
C22_BaseFromParentOrDerived ==
  Enumerated =>
    /\ Len(gBasePaths) = Len(RecognizedDisks)
    /\ \A i \in 1..Len(RecognizedDisks) :
         LET device == RecognizedDisks[i]
         IN /\ (device.parent.set /\ device.parent.fileName # <<>>) =>
                 gBasePaths[i] = device.parent.fileName
            /\ ~(device.parent.set /\ device.parent.fileName # <<>>) =>
                 gBasePaths[i] = ReferenceBasePath(device.fileName)
    /\ InfoReturned => gResult.info[1].BaseDiskPaths = gBasePaths

\* the one disk "[ds1] web01/web01-000004.vmdk" without a parent gave the
\* base path "[ds1] web01/web01.vmdk" and a compute resource path
C22_Witness ==
  /\ InfoReturned
  /\ gDevices = <<[disk |-> TRUE, flat |-> TRUE, fileName |-> DeltaFile,
                   parent |-> NoParent]>>
  /\ gResult.info[1].BaseDiskPaths = <<BaseFile>>
  /\ gResult.info[1].ComputeResourcePath # ""

\* C23: the disk paths are the current paths of the recognized disks, all
\* of them and in the order of the device list; the other devices are left
\* out, and the call fails for want of disks only when no device is a
\* recognized disk.
C23_RecognizedDisksInOrder ==
  Enumerated =>
    /\ gDiskPaths = [i \in 1..Len(RecognizedDisks) |-> RecognizedDisks[i].fileName]
    /\ (gResult.err = ErrNoDisks) <=> (RecognizedDisks = <<>>)
    /\ InfoReturned => gResult.info[1].DiskPaths = gDiskPaths

\* a disk with another backing was left out and the disk after it returned
C23_Witness ==
  /\ InfoReturned
  /\ Len(gDevices) = 2
  /\ gDevices[1].disk /\ ~gDevices[1].flat
  /\ gResult.info[1].DiskPaths = <<gDevices[2].fileName>>

\* C24 as stated: the three errors differ and each of them is the outcome
\* for some device list or some reply about the compute resource.
C24_ThreeErrorsReachable ==
  gpc = "found" =>
    /\ ErrNoDisks # ErrNoBaseDisks
    /\ ErrNoDisks # ErrNoComputeResource
    /\ ErrNoBaseDisks # ErrNoComputeResource
    /\ \E devices \in DeviceLists :
         ListError(CollectDisks(devices, 1, <<>>, <<>>)) = ErrNoDisks
    /\ \E devices \in DeviceLists :
         ListError(CollectDisks(devices, 1, <<>>, <<>>)) = ErrNoBaseDisks
    /\ \E hostSet, parentOK \in BOOLEAN, host, parent \in Lookups :
         ComputeResourcePath(hostSet, PathOf(host), parentOK, PathOf(parent)) = ""

\* C24 amended: the three errors differ; the call fails with the first
\* exactly when no device is a recognized disk, with the third only when
\* there are disks and base paths, and never with the second.
C24_TwoErrorsReachable ==
  /\ ErrNoDisks # ErrNoBaseDisks
  /\ ErrNoDisks # ErrNoComputeResource
  /\ ErrNoBaseDisks # ErrNoComputeResource
  /\ gResult.err # ErrNoBaseDisks
  /\ Enumerated =>
       /\ (gResult.err = ErrNoDisks) <=> (RecognizedDisks = <<>>)
       /\ gResult.err = ErrNoComputeResource =>
            Len(gDiskPaths) > 0 /\ Len(gBasePaths) > 0
  /\ gResult.err \in {ErrNoDisks, ErrNoComputeResource} =>
       gpc = "done" /\ gResult.info = <<>>

\* the call failed for want of a compute resource path, with disks found
C24_Witness ==
  /\ gpc = "done"
  /\ gResult.err = ErrNoComputeResource
  /\ Len(gDiskPaths) > 0

\* the names of the snapshots of the VM
SnapshotNamesOf(snapshot) ==
  {snapshot[1].names[i] : i \in 1..Len(snapshot[1].names)}

\* the error of a search that found no snapshot of the name
NotFoundError(o, name) ==
  IF o = "GetSnapshotDiskInfo" THEN ErrFindSnapshot(name) ELSE ErrNotFoundOnVM(name)

\* C25: a call that returned after reading the snapshot data failed with
\* the no-snapshots error exactly when the VM had no snapshot data, and with
\* the not-found error exactly when it had snapshot data without a snapshot
\* of the name; the two errors differ.
C25_NoSnapshotsVersusNotFound ==
  (gpc = "done" /\ gResult.err \notin {GErr(<<"VM not found">>),
                                       GErr(<<"failed to get vSphere client: ", "error">>),
                                       GErr(<<"failed to get VM properties: ", "error">>),
                                       GErr(<<"failed to retrieve VM snapshots: ", "error">>)}) =>
    /\ ErrNoSnapshots # NotFoundError(gop, gName)
    /\ (gResult.err = ErrNoSnapshots) <=> (gSnapshot = <<>> /\ gMoref = <<>>)
    /\ (gResult.err = NotFoundError(gop, gName)) <=>
         (gSnapshot # <<>> /\ gName \notin SnapshotNamesOf(gSnapshot))

\* a VM with snapshots, none of the name, gave the not-found error
C25_Witness ==
  /\ gpc = "done"
  /\ gSnapshot # <<>>
  /\ SnapshotNamesOf(gSnapshot) # {}
  /\ gName \notin SnapshotNamesOf(gSnapshot)
  /\ gResult.err = NotFoundError(gop, gName)

\* ================================================== remote tasks
\* VMService.CreateLinkedClone, DeleteVM and CreateSnapshot: the lookup of
\* the VM, the call that asks vCenter for the change and returns a task,
\* and task.Wait(ctx).  The remote task runs on vCenter and ends by itself;
\* task.Wait returns when it has ended, or with the error of ctx when ctx
\* is done first.

TaskOps == {"CreateLinkedClone", "DeleteVM", "CreateSnapshot"}

\* task.Reference().Value
TaskId == "task-1"

\* the message of the fault of a task that failed
TaskFault == "fault of the task"

\* the error of a done context
TaskCtxError == "context canceled"

\* fmt.Errorf("failed to create ... task: %w", err)
SubmitFailed(o) ==
  CASE o = "CreateLinkedClone" -> "failed to create clone task: "
    [] o = "DeleteVM" -> "failed to create delete task: "
    [] o = "CreateSnapshot" -> "failed to create snapshot task: "

\* fmt.Errorf("... failed: %w", err) after task.Wait
WaitFailed(o) ==
  CASE o = "CreateLinkedClone" -> "clone creation failed: "
    [] o = "DeleteVM" -> "VM deletion failed: "
    [] o = "CreateSnapshot" -> "snapshot creation failed: "

\* the value returned next to a nil error
TaskValue(o) == IF o = "CreateSnapshot" THEN TaskId ELSE ""

\* what the method returns once task.Wait has returned waitErr ("" is nil)
WaitResult_Swallowed(o, waitErr) == [op |-> o, value |-> TaskValue(o), err |-> <<>>]

WaitResult(o, waitErr) ==
  IF waitErr # ""
    THEN [op |-> o, value |-> "", err |-> <<WaitFailed(o), waitErr>>]
    ELSE [op |-> o, value |-> TaskValue(o), err |-> <<>>]

\* the calls of vm.Clone / vm.Destroy / vm.CreateSnapshot one execution of
\* the call statement makes
SubmitCalls_Retry(n) == n + 2

SubmitCalls(n) == n + 1

TaskReturn(r) ==
  /\ tpc' = "idle"
  /\ tResult' = r

\* a caller calls one of the three methods
TaskCall(o) ==
  /\ tpc = "idle"
  /\ invocations < MaxCalls
  /\ invocations' = invocations + 1
  /\ top' = o
  /\ tpc' = "find"
  /\ tctx' = FALSE
  /\ task' = "none"
  /\ mutations' = 0
  /\ UNCHANGED tResult
  /\ UNCHANGED <<clientVars, nbdVars, pathVars, snapVars, diskVars, nctx, later>>

\* findVMByName
TaskFindVM ==
  /\ tpc = "find"
  /\ \E ok \in BOOLEAN :
       IF ok
         THEN /\ tpc' = IF top = "CreateLinkedClone" THEN "folder" ELSE "submit"
              /\ UNCHANGED tResult
         ELSE TaskReturn([op |-> top, value |-> "", err |-> <<"VM not found">>])
  /\ UNCHANGED <<top, tctx, task, mutations, invocations>>
  /\ UNCHANGED <<clientVars, nbdVars, pathVars, snapVars, diskVars, nctx, later>>

\* CreateLinkedClone: GetClient and finder.FolderOrDefault
TaskFolder ==
  /\ tpc = "folder"
  /\ \E what \in {"client", "folder", "ok"} :
       CASE what = "client" ->
              TaskReturn([op |-> top, value |-> "",
                          err |-> <<"failed to get vSphere client: ", "error">>])
         [] what = "folder" ->
              TaskReturn([op |-> top, value |-> "",
                          err |-> <<"failed to find VM folder: ", "error">>])
         [] what = "ok" -> tpc' = "submit" /\ UNCHANGED tResult
  /\ UNCHANGED <<top, tctx, task, mutations, invocations>>
  /\ UNCHANGED <<clientVars, nbdVars, pathVars, snapVars, diskVars, nctx, later>>

\* task, err := vm.Clone(...) / vm.Destroy(ctx) / vm.CreateSnapshot(...)
TaskSubmit ==
  /\ tpc = "submit"
  /\ mutations' = SubmitCalls(mutations)
  /\ \E ok \in BOOLEAN :
       IF ok
         THEN /\ task' = "running"
              /\ tpc' = "wait"
              /\ UNCHANGED tResult
         ELSE /\ TaskReturn([op |-> top, value |-> "",
                             err |-> <<SubmitFailed(top), "error">>])
              /\ UNCHANGED task
  /\ UNCHANGED <<top, tctx, invocations>>
  /\ UNCHANGED <<clientVars, nbdVars, pathVars, snapVars, diskVars, nctx, later>>

\* the remote task ends
TaskEnds ==
  /\ task = "running"
  /\ \E outcome \in {"success", "error"} : task' = outcome
  /\ UNCHANGED <<top, tpc, tctx, mutations, invocations, tResult>>
  /\ UNCHANGED <<clientVars, nbdVars, pathVars, snapVars, diskVars, nctx, later>>

\* the caller cancels ctx, or its deadline passes, during task.Wait
TaskCancel ==
  /\ tpc = "wait"
  /\ ~tctx
  /\ tctx' = TRUE
  /\ UNCHANGED <<top, tpc, task, mutations, invocations, tResult>>
  /\ UNCHANGED <<clientVars, nbdVars, pathVars, snapVars, diskVars, nctx, later>>

\* err = task.Wait(ctx) returns: the task has ended, or ctx is done
TaskWait ==
  /\ tpc = "wait"
  /\ \/ /\ task = "success"
        /\ TaskReturn(WaitResult(top, ""))
     \/ /\ task = "error"
        /\ TaskReturn(WaitResult(top, TaskFault))
     \/ /\ tctx
        /\ TaskReturn(WaitResult(top, TaskCtxError))
  /\ UNCHANGED <<top, tctx, task, mutations, invocations>>
  /\ UNCHANGED <<clientVars, nbdVars, pathVars, snapVars, diskVars, nctx, later>>

InitTask ==
  /\ ClientIdle /\ NBDIdle /\ PathIdle /\ SnapIdle /\ DiskIdle /\ CtxIdle
  /\ LaterIdle
  /\ top = "none"
  /\ tpc = "idle"
  /\ tctx = FALSE
  /\ task = "none"
  /\ mutations = 0
  /\ invocations = 0
  /\ tResult = NoTaskResult

NextTask ==
  \/ \E o \in TaskOps : TaskCall(o)
  \/ TaskFindVM
  \/ TaskFolder
  \/ TaskSubmit
  \/ TaskEnds
  \/ TaskCancel
  \/ TaskWait

SpecTask == InitTask /\ [][NextTask]_vars

\* ------------------------------------------------ remote tasks: claims
\* the call returns from task.Wait in this step
TaskWaitReturns == tpc = "wait" /\ tpc' = "idle"

\* the steps of C30 that do not depend on how task.Wait ends
C30_CommonStep ==
  /\ mutations' <= 1
  /\ mutations' > mutations => tpc = "submit"
  /\ (tpc # "idle" /\ tpc' = "idle") =>
       /\ tpc \in {"find", "folder", "submit", "wait"}
       /\ tpc \in {"find", "folder", "submit"} => tResult'.err # <<>>
       /\ tResult'.err = <<>> => tpc = "wait" /\ task = "success" /\ mutations = 1
  /\ (TaskWaitReturns /\ task = "error") => tResult'.err # <<>>

\* C30 as stated: at most one mutating call and no retry, a return from the
\* wait only when the task has ended, an error whenever the task failed.
C30_WaitStep ==
  /\ C30_CommonStep
  /\ TaskWaitReturns => task \in {"success", "error"}

C30_AmendedStep ==
  /\ C30_CommonStep
  /\ TaskWaitReturns =>
       \/ task \in {"success", "error"}
       \/ tctx /\ tResult'.err = <<WaitFailed(top), TaskCtxError>>
  /\ (TaskWaitReturns /\ task = "error" /\ ~tctx) =>
       tResult'.err = <<WaitFailed(top), TaskFault>>

C28_WaitStep ==
  \A t \in Threads :
    (Leaves(t, "c_wait") /\ ctxDone[t]) =>
      /\ ReturnsNow(t)
      /\ err'[t] = Wrap("failed to login to vCenter", CtxError)
      /\ obs'[t].logins <= obs[t].logins
      /\ ~isLoggedIn'

C28_CancelledDuringRetryDelay == [][C28_WaitStep]_vars

\* ------------------------- export sessions: all-or-nothing, cancellation
\* Open of caller c returns in this step without having started a process
OpenFailsEarly(c) ==
  /\ npc[c] = "idle" /\ npc'[c] = "idle"
  /\ result'[c].op = "Open" /\ result'[c] # result[c]

\* C26: OpenWithNBDKitVDDK returns either a nil session next to an error or a
\* session next to a nil error whose process is running, and a failed Open
\* leaves no running process behind (GetSnapshotDiskInfo, the other half of
\* the claim, is the snapshot disk resolution above).
C26_OpenStep ==
  \A c \in Callers :
    /\ OpenFailsEarly(c) =>
         /\ session'[c] = NilSession
         /\ result'[c].kind # "ok"
         /\ proc' = proc
    /\ NLeaves(c, "o_check") =>
         LET p == nobs[c].pid
         IN \/ /\ session'[c] = NilSession
               /\ result'[c].kind # "ok"
               /\ proc'[p].st # "running"
            \/ /\ session'[c] # NilSession
               /\ session'[c].cmd = p
               /\ result'[c].kind = "ok"
               /\ proc'[p].st = "running"

C26_AllOrNothing == [][C26_OpenStep]_vars

\* C29: past the deadline WaitForReady returns the timeout error only for a
\* process that is running at the final check, and the process-died error
\* for a process that has ended.
C29_FinalCheckStep ==
  \A c \in Callers :
    (/\ WaitReturns(c)
     /\ npc[c] = "w_loop"
     /\ ~LoopCond(elapsed[c], timeout[c])) =>
       /\ result'[c].kind \in {"NBD server not ready", "nbdkit process died"}
       /\ result'[c].kind = "NBD server not ready" =>
            proc[session[c].cmd].st = "running"
       /\ Ended(c) => result'[c].kind = "nbdkit process died"

C29_TimeoutOnlyIfAlive == [][C29_FinalCheckStep]_vars

\* the outcomes of Open and WaitForReady that say ready, failed or timed out
UncancelledKinds ==
  DiedKinds \cup {"ok", "NBD server not ready",
                  "nbdkit process exited immediately"}

\* C27: once the caller's context is done, the grace wait of Open and the
\* readiness poll of WaitForReady wait no further: their next step returns,
\* with an outcome that is none of ready, failed and timed out.
C27_CancelStep ==
  \A c \in Callers :
    (/\ nctx[c]
     /\ npc[c] \in {"o_check", "w_loop", "w_stat"}
     /\ npc'[c] # npc[c]) =>
       /\ npc'[c] = "idle"
       /\ result'[c].kind \notin UncancelledKinds

C27_WaitsCancellable == [][C27_CancelStep]_vars

\* ------------------------------------------- session manager: more claims
\* C31: whenever no call is in progress and isLoggedIn is true, c.client is
\* a handle whose own login and verification both succeeded.
C31_FlagImpliesVerified ==
  (\A t \in Threads : pc[t] = "idle") =>
    (isLoggedIn => client # 0 /\ verified)

\* C32: within one Connect call no login follows a successful login, the
\* verification is made once, and only after a successful login, and a
\* failed verification is followed by the return of Connect.
C32_Positions ==
  \A t \in Threads :
    /\ pc[t] = "c_verify" =>
         obs[t].loginOK /\ obs[t].logins >= 1 /\ obs[t].verifies = 0
    /\ pc[t] \in {"c_login", "c_wait"} =>
         ~obs[t].loginOK /\ obs[t].verifies = 0

C32_Step ==
  \A t \in Threads :
    /\ Leaves(t, "c_login") =>
         /\ pc'[t] = "c_verify" <=> obs'[t].loginOK
         /\ pc'[t] \in {"c_verify", "c_wait"} =>
              obs'[t].logins = obs[t].logins + 1
    /\ Leaves(t, "c_verify") =>
         /\ ReturnsNow(t)
         /\ Head(stack[t]) = "idle" =>
              /\ obs'[t].verifies = 1
              /\ obs'[t].logins = obs[t].logins
    /\ (pc'[t] = "c_verify" /\ pc[t] # "c_verify") => pc[t] = "c_login"
    /\ (pc'[t] \in {"c_login", "c_wait"} /\ pc'[t] # pc[t]) =>
         pc[t] \in {"c_setup", "c_login", "c_wait"}

C32_LoginThenVerifyOnce == []C32_Positions /\ [][C32_Step]_vars

\* a Connect that logged in at its second attempt and failed to verify
C32_Witness ==
  \E t \in Threads :
    /\ Returned(t, "Connect") /\ err[t] = <<Err("failed to verify session", 0)>>
    /\ obs[t].logins = 2 /\ obs[t].verifies = 1

\* ---------------------------------- snapshot disk resolution: more claims
\* GetSnapshotDiskInfo has returned after looking up the host of the VM
HostResolved == gpc = "done" /\ gHost.looked

\* C33: the compute-resource path returned is the host's inventory path when
\* that is not empty, the parent's path only when the VM has a host whose
\* path is not available, and GetSnapshotDiskInfo never succeeds with an
\* empty path: without a host, or with neither path, it fails.
C33_HostPathFirst ==
  /\ InfoReturned => gResult.info[1].ComputeResourcePath # ""
  /\ HostResolved =>
       /\ gHost.path # "" =>
            InfoReturned /\ gResult.info[1].ComputeResourcePath = gHost.path
       /\ ~gHost.set => gResult = DiskFailure(gop, ErrNoComputeResource)
       /\ (InfoReturned /\ gResult.info[1].ComputeResourcePath # gHost.path) =>
            /\ gHost.set /\ gHost.path = ""
            /\ gResult.info[1].ComputeResourcePath \in InventoryPaths
       /\ ~InfoReturned => gResult = DiskFailure(gop, ErrNoComputeResource)

\* the lookup of the host gave no path and the path of its parent was returned
C33_Witness ==
  /\ HostResolved /\ InfoReturned
  /\ gHost.set /\ gHost.path = ""
  /\ gResult.info[1].ComputeResourcePath = "/dc1/host/cluster1"

\* ====================================================== one inspection
\* VirtInspector.Inspect with UseVirtV2VOpen = false: OpenWithNBDKitVDDK,
\* WaitForReady, virt-inspector on the NBD URL of the session,
\* ParseInspectionXML, and the deferred calls that run when it returns.

\* the errors of OpenWithNBDKitVDDK
OpenErrors ==
  {"failed to parse vCenter URL", "failed to start nbdkit",
   "nbdkit process exited immediately"}

\* the errors of WaitForReady
WaitErrors == DiedKinds \cup {"NBD server not ready"}

\* return nil, err: the error and the error it wraps
InspectFailure(kind, cause) == [kind |-> kind, cause |-> cause, data |-> FALSE]

\* return inspectionData, nil
InspectSuccess == [kind |-> "ok", cause |-> "", data |-> TRUE]

\* The call is not deferred.
PushDefer_CloseDropped(defers, call) ==
  IF call = "Close" THEN defers ELSE <<call>> \o defers

\* defer call(): deferred calls run last in, first out
PushDefer(defers, call) == <<call>> \o defers

\* Close on session id
CloseSession(sessions, id) == [sessions EXCEPT ![id] = "closed"]

\* Inspect is called; defer cancel() of openCtx
InspectCall ==
  /\ ipc = "idle"
  /\ Len(iSessions) < MaxCalls
  /\ ipc' = "open"
  /\ iDefers' = PushDefer(<<>>, "cancel")
  /\ iCur' = 0
  /\ iErr' = NoInspection
  /\ UNCHANGED <<iSessions, iUsed, iResult>>
  /\ UNCHANGED <<earlier, logVars, pwVars, cloneVars, subVars>>

\* nbdkitSession, err := OpenWithNBDKitVDDK(openCtx, ...)
InspectOpen ==
  /\ ipc = "open"
  /\ \E e \in OpenErrors \cup {"ok"} :
       IF e = "ok"
         THEN /\ iSessions' = Append(iSessions, "open")
              /\ iCur' = Len(iSessions) + 1
              /\ ipc' = "wait"
              /\ UNCHANGED iErr
         ELSE /\ iErr' = InspectFailure(e, "")
              /\ ipc' = "returning"
              /\ UNCHANGED <<iSessions, iCur>>
  /\ UNCHANGED <<iDefers, iUsed, iResult>>
  /\ UNCHANGED <<earlier, logVars, pwVars, cloneVars, subVars>>

\* nbdkitSession.WaitForReady(30 * time.Second): on an error Close and
\* return; else defer sessionCloser() and defer cancel() of inspectCtx
InspectWait ==
  /\ ipc = "wait"
  /\ \E e \in WaitErrors \cup {"ok"} :
       IF e = "ok"
         THEN /\ iDefers' = PushDefer(PushDefer(iDefers, "Close"), "cancel")
              /\ ipc' = "run"
              /\ UNCHANGED <<iSessions, iErr>>
         ELSE /\ iSessions' = CloseSession(iSessions, iCur)
              /\ iErr' = InspectFailure("NBD server not ready", e)
              /\ ipc' = "returning"
              /\ UNCHANGED iDefers
  /\ UNCHANGED <<iCur, iUsed, iResult>>
  /\ UNCHANGED <<earlier, logVars, pwVars, cloneVars, subVars>>

\* virtInspectorCmd.CombinedOutput() on nbdURL
InspectRun ==
  /\ ipc = "run"
  /\ iUsed' = iUsed \cup {iSessions[iCur]}
  /\ \E e \in {"ok", "virt-inspector failed", "virt-inspector failed with output"} :
       IF e = "ok"
         THEN ipc' = "parse" /\ UNCHANGED iErr
         ELSE ipc' = "returning" /\ iErr' = InspectFailure(e, "")
  /\ UNCHANGED <<iDefers, iSessions, iCur, iResult>>
  /\ UNCHANGED <<earlier, logVars, pwVars, cloneVars, subVars>>

\* ParseInspectionXML(output)
InspectParse ==
  /\ ipc = "parse"
  /\ \E ok \in BOOLEAN :
       iErr' = IF ok THEN InspectSuccess
               ELSE InspectFailure("failed to parse inspection output", "")
  /\ ipc' = "returning"
  /\ UNCHANGED <<iDefers, iSessions, iCur, iUsed, iResult>>
  /\ UNCHANGED <<earlier, logVars, pwVars, cloneVars, subVars>>

\* a deferred call runs: sessionCloser is nbdkitSession.Close
InspectDefer ==
  /\ ipc = "returning"
  /\ iDefers # <<>>
  /\ iSessions' = IF Head(iDefers) = "Close"
                    THEN CloseSession(iSessions, iCur)
                    ELSE iSessions
  /\ iDefers' = Tail(iDefers)
  /\ UNCHANGED <<ipc, iCur, iUsed, iErr, iResult>>
  /\ UNCHANGED <<earlier, logVars, pwVars, cloneVars, subVars>>

\* Inspect returns to its caller
InspectReturn ==
  /\ ipc = "returning"
  /\ iDefers = <<>>
  /\ ipc' = "idle"
  /\ iResult' = iErr
  /\ iCur' = 0
  /\ UNCHANGED <<iDefers, iSessions, iUsed, iErr>>
  /\ UNCHANGED <<earlier, logVars, pwVars, cloneVars, subVars>>

InitInspect ==
  /\ EarlierIdle /\ LogIdle /\ PwIdle /\ CloneIdle /\ SubIdle
  /\ ipc = "idle"
  /\ iDefers = <<>>
  /\ iSessions = <<>>
  /\ iCur = 0
  /\ iUsed = {}
  /\ iErr = NoInspection
  /\ iResult = NoInspection

NextInspect ==
  \/ InspectCall
  \/ InspectOpen
  \/ InspectWait
  \/ InspectRun
  \/ InspectParse
  \/ InspectDefer
  \/ InspectReturn

SpecInspect == InitInspect /\ [][NextInspect]_vars

\* ------------------------------------------------ one inspection: claims
\* C34: whenever Inspect is not running, every session a successful Open
\* returned has been closed, whatever the exit path was, and no session was
\* handed to virt-inspector after it had been closed.
C34_SessionsClosed ==
  /\ ipc = "idle" =>
       \A id \in 1..Len(iSessions) : iSessions[id] = "closed"
  /\ "closed" \notin iUsed
  /\ (ipc = "idle" /\ iResult.kind \notin OpenErrors \cup {"none"}) =>
       iSessions # <<>>

\* an inspection whose readiness wait failed and one that succeeded have
\* both returned
C34_Witness ==
  /\ ipc = "idle"
  /\ Len(iSessions) = 2
  /\ iResult = InspectSuccess
  /\ iUsed = {"open"}

\* ----------------------------------------- export sessions: poll iteration
\* the liveness check on the process of the session of c would fail now
FoundExited(c) ==
  HasProcess(session[c]) /\ SignalFails(proc[session[c].cmd].st)

\* C35: WaitForReady returns success only from the os.Stat of an iteration
\* whose liveness check had passed, with the socket file there; an
\* iteration whose liveness check fails returns the process error, the
\* socket file existing or not, and goes on to no os.Stat.
C35_IterationStep ==
  \A c \in Callers :
    /\ (WaitReturns(c) /\ result'[c].kind = "ok") =>
         /\ npc[c] = "w_stat"
         /\ session[c].socketPath \in sockets
    /\ (NLeaves(c, "w_loop") /\ npc'[c] = "w_stat") =>
         ~FoundExited(c) /\ LoopCond(elapsed[c], timeout[c])
    /\ (NLeaves(c, "w_loop") /\ LoopCond(elapsed[c], timeout[c])
          /\ FoundExited(c)) =>
         /\ npc'[c] = "idle"
         /\ result'[c].kind = "nbdkit process died while waiting for NBD server"

C35_ExitedWinsOverSocket == [][C35_IterationStep]_vars

\* the process error was returned from an iteration with the socket file
\* in place
C35_Witness ==
  \E c \in Callers :
    /\ npc[c] = "idle"
    /\ result[c].kind = "nbdkit process died while waiting for NBD server"
    /\ session[c].socketPath \in sockets

\* ================================================ the nbdkit command line
\* OpenWithNBDKitVDDK builds nbdkitArgs and, with a logger, logs a copy of
\* them in which the password is to be masked.  Strings are sequences of
\* characters.

\* the characters of the passwords explored
PasswordChars == {"a", "*", "="}

\* the passwords explored: not empty, up to MaxPassword characters
Passwords == UNION {[1..k -> PasswordChars] : k \in 1..MaxPassword}

\* thumbprints: none, or one
Thumbprints == {<<>>, <<"A", "B">>}

\* "password="
PasswordKey == <<"p", "a", "s", "s", "w", "o", "r", "d", "=">>

\* "password=***"
MaskedPassword == PasswordKey \o <<"*", "*", "*">>

\* nbdkitArgs: the thumbprint is appended when there is one
NbdkitArgs(password, thumbprint) ==
  <<<<"-", "U">>, <<"/", "t", "m", "p", "/", "n", "b", "d", "k", "i", "t", "-", "1", ".", "s", "o", "c", "k">>, <<"-", "-", "f", "o", "r", "e", "g", "r", "o", "u", "n", "d">>, <<"-", "-", "e", "x", "i", "t", "-", "w", "i", "t", "h", "-", "p", "a", "r", "e", "n", "t">>, <<"-", "r">>, <<"v", "d", "d", "k">>,
    <<"s", "e", "r", "v", "e", "r", "=", "v", "c">>,
    <<"u", "s", "e", "r", "=", "u">>,
    PasswordKey \o password,
    <<"v", "m", "=", "m", "o", "r", "e", "f", "=", "v", "m", "-", "1">>,
    <<"s", "n", "a", "p", "s", "h", "o", "t", "=", "s", "-", "1">>,
    <<"f", "i", "l", "e", "=", "d", ".", "v", "m", "d", "k">>,
    <<"l", "i", "b", "d", "i", "r", "=", "/", "o", "p", "t">>>>
  \o (IF thumbprint # <<>>
        THEN <<<<"t", "h", "u", "m", "b", "p", "r", "i", "n", "t", "=">> \o thumbprint>>
        ELSE <<>>)

\* arg[:n]
Prefix(arg, n) == SubSeq(arg, 1, n)

\* The prefix compared has the length of "password=".
MaskArg_NineBytes(arg) ==
  IF Len(arg) > 8 /\ Prefix(arg, 9) = PasswordKey THEN MaskedPassword ELSE arg

\* if len(arg) > 8 && arg[:8] == "password=" { logArgs[i] = "password=***" }
MaskArg(arg) ==
  IF Len(arg) > 8 /\ Prefix(arg, 8) = PasswordKey THEN MaskedPassword ELSE arg

\* logArgs: the copy of nbdkitArgs after the masking loop
LogArgs(args) == [i \in 1..Len(args) |-> MaskArg(args[i])]

\* nbdkitArgs is built and the log entry written
LogCommand ==
  /\ lpc = "input"
  /\ lpc' = "logged"
  /\ lArgs' = NbdkitArgs(lPassword, lThumbprint)
  /\ lLogged' = IF lLogger THEN LogArgs(NbdkitArgs(lPassword, lThumbprint)) ELSE <<>>
  /\ UNCHANGED <<lPassword, lThumbprint, lLogger>>
  /\ UNCHANGED <<earlier, inspVars, pwVars, cloneVars, subVars>>

InitLog ==
  /\ EarlierIdle /\ InspIdle /\ PwIdle /\ CloneIdle /\ SubIdle
  /\ lpc = "input"
  /\ lPassword \in Passwords
  /\ lThumbprint \in Thumbprints
  /\ lLogger \in BOOLEAN
  /\ lArgs = <<>>
  /\ lLogged = <<>>

SpecLog == InitLog /\ [][LogCommand]_vars

\* ----------------------------------------- the nbdkit command line: claims
\* position of the password in nbdkitArgs
PasswordIndex == 9

\* C36: the arguments logged show "password=***" for the password and are
\* the same whatever the password is.
C36_PasswordNotLogged ==
  (lpc = "logged" /\ lLogger) =>
    /\ lLogged[PasswordIndex] = MaskedPassword
    /\ \A other \in Passwords :
         LogArgs(NbdkitArgs(other, lThumbprint)) = lLogged

\* ----------------------------------------- VirtV2vInspector.Inspect: the
\* temporary password file
\* errors of createPasswordFile as Inspect wraps them
CreateTempFailed ==
  "failed to create password file: failed to create temporary password file"

WriteFailed ==
  "failed to create password file: failed to write password to file"

CloseFailed ==
  "failed to create password file: failed to close password file"

ChmodFailed ==
  "failed to create password file: failed to set password file permissions"

CreateErrors == {CreateTempFailed, WriteFailed, CloseFailed, ChmodFailed}

\* ways the virt-v2v-inspector command ends in the select
CommandOutcomes == {"ok", "failed", "timeout", "cancelled"}

\* the error Inspect returns for an outcome of the command
CommandError(outcome) ==
  CASE outcome = "failed" -> "virt-v2v-inspector failed"
    [] outcome = "timeout" -> "virt-v2v-inspector command timed out"
    [] outcome = "cancelled" -> "virt-v2v-inspector command was cancelled"
    [] OTHER -> ""

\* os.CreateTemp picks a name no file has
TempName(files) == CHOOSE n \in 1..(Cardinality(files) + 1) : n \notin files

RemoveFile_Noop(files, f) == files

\* os.Remove(name)
RemoveFile(files, f) == files \ {f}

\* Inspect is called; an empty compute resource path returns at once,
\* otherwise defer cancel() of inspectCtx
PwCall ==
  /\ vpc \in {"off", "returned"}
  /\ vNext <= MaxCalls
  /\ vNext' = vNext + 1
  /\ vFile' = 0
  /\ \E computeResourcePath \in {"", "/dc1/host/cluster1"} :
       IF computeResourcePath = ""
         THEN /\ vpc' = "defers"
              /\ vErr' = "compute resource path is required for vpx:// URL"
              /\ vDefers' = <<>>
         ELSE /\ vpc' = "createTemp"
              /\ vErr' = ""
              /\ vDefers' = PushDefer(<<>>, "cancel")
  /\ UNCHANGED <<vFiles, vResult>>
  /\ UNCHANGED <<earlier, inspVars, logVars, cloneVars, subVars>>

\* createPasswordFile: tmpFile, err := os.CreateTemp("", "v2v-password-*")
PwCreateTemp ==
  /\ vpc = "createTemp"
  /\ \E ok \in BOOLEAN :
       IF ok
         THEN /\ vFile' = TempName(vFiles)
              /\ vFiles' = vFiles \cup {TempName(vFiles)}
              /\ vpc' = "write"
              /\ UNCHANGED vErr
         ELSE /\ vErr' = CreateTempFailed
              /\ vpc' = "defers"
              /\ UNCHANGED <<vFile, vFiles>>
  /\ UNCHANGED <<vNext, vDefers, vResult>>
  /\ UNCHANGED <<earlier, inspVars, logVars, cloneVars, subVars>>

\* a step of createPasswordFile on the open file: on failure the file is
\* removed and the error returned
PwFileStep(at, next, failure) ==
  /\ vpc = at
  /\ \E ok \in BOOLEAN :
       IF ok
         THEN /\ vpc' = next
              /\ UNCHANGED <<vFiles, vFile, vErr>>
         ELSE /\ vFiles' = RemoveFile(vFiles, vFile)
              /\ vFile' = 0
              /\ vErr' = failure
              /\ vpc' = "defers"
  /\ UNCHANGED <<vNext, vDefers, vResult>>
  /\ UNCHANGED <<earlier, inspVars, logVars, cloneVars, subVars>>

\* tmpFile.WriteString(password)
PwWrite == PwFileStep("write", "close", WriteFailed)

\* tmpFile.Close()
PwClose == PwFileStep("close", "chmod", CloseFailed)

\* os.Chmod(tmpFile.Name(), 0600)
PwChmod == PwFileStep("chmod", "created", ChmodFailed)

\* passwordFile is returned to Inspect; defer os.Remove(passwordFile)
PwRegister ==
  /\ vpc = "created"
  /\ vpc' = "run"
  /\ vDefers' = PushDefer(vDefers, "Remove")
  /\ UNCHANGED <<vFiles, vFile, vNext, vErr, vResult>>
  /\ UNCHANGED <<earlier, inspVars, logVars, cloneVars, subVars>>

\* the select on resultChan and inspectCtx.Done()
PwRun ==
  /\ vpc = "run"
  /\ \E outcome \in CommandOutcomes :
       /\ vErr' = CommandError(outcome)
       /\ vpc' = IF outcome = "ok" THEN "parse" ELSE "defers"
  /\ UNCHANGED <<vFiles, vFile, vNext, vDefers, vResult>>
  /\ UNCHANGED <<earlier, inspVars, logVars, cloneVars, subVars>>

\* ParseV2VInspectionXML(xmlData)
PwParse ==
  /\ vpc = "parse"
  /\ \E ok \in BOOLEAN :
       vErr' = IF ok THEN "" ELSE "failed to parse virt-v2v-inspector output"
  /\ vpc' = "defers"
  /\ UNCHANGED <<vFiles, vFile, vNext, vDefers, vResult>>
  /\ UNCHANGED <<earlier, inspVars, logVars, cloneVars, subVars>>

\* the deferred calls run, last in first out
PwDefer ==
  /\ vpc = "defers"
  /\ vDefers # <<>>
  /\ vFiles' = IF Head(vDefers) = "Remove"
                 THEN RemoveFile(vFiles, vFile)
                 ELSE vFiles
  /\ vDefers' = Tail(vDefers)
  /\ UNCHANGED <<vpc, vFile, vNext, vErr, vResult>>
  /\ UNCHANGED <<earlier, inspVars, logVars, cloneVars, subVars>>

\* Inspect returns the inspection data or the error to its caller
PwReturn ==
  /\ vpc = "defers"
  /\ vDefers = <<>>
  /\ vpc' = "returned"
  /\ vResult' = IF vErr = "" THEN "data" ELSE vErr
  /\ UNCHANGED <<vFiles, vFile, vNext, vDefers, vErr>>
  /\ UNCHANGED <<earlier, inspVars, logVars, cloneVars, subVars>>

InitPw == EarlierIdle /\ InspIdle /\ LogIdle /\ PwIdle /\ CloneIdle /\ SubIdle

NextPw ==
  \/ PwCall
  \/ PwCreateTemp
  \/ PwWrite
  \/ PwClose
  \/ PwChmod
  \/ PwRegister
  \/ PwRun
  \/ PwParse
  \/ PwDefer
  \/ PwReturn

SpecPw == InitPw /\ [][NextPw]_vars

\* ----------------------------------------- the password file: claims
\* C37: when Inspect is not running no temporary password file exists,
\* whichever way it returned, and when createPasswordFile has failed no
\* file is left at that moment either.
C37_PasswordFileRemoved ==
  /\ vpc \in {"off", "returned"} => vFiles = {}
  /\ (vpc = "defers" /\ vErr \in CreateErrors) => vFiles = {}
  /\ (vpc = "returned" /\ vResult \notin CreateErrors /\ vFile # 0) =>
       vFile \notin vFiles

\* an inspection that created its password file has timed out and returned,
\* after an earlier one whose password file could not be written
C37_Witness ==
  /\ vpc = "returned"
  /\ vNext = 3
  /\ vFile # 0
  /\ vResult = CommandError("timeout")

\* ----------------------------------------- VMService.InspectVMFromSnapshot
\* what FindSnapshotByName, CreateLinkedClone and DeleteVM return: "ok" for
\* a nil error
CallOutcomes == {"ok", "failed", "context canceled"}

\* fmt.Errorf(prefix + ": %w", err)
Errorf(prefix, cause) == <<prefix, cause>>

\* the nil error
NilError == <<"nil", "">>

CleanupResult_Propagated(res, cleanupErr) ==
  IF cleanupErr = "ok" THEN res ELSE <<"cleanup", cleanupErr>>

\* the deferred function logs cleanupErr and assigns nothing: the value of
\* the return statement is what the caller gets
CleanupResult(res, cleanupErr) == res

\* cloneName := fmt.Sprintf("%s-inspect-clone-%d", vmName, time.Now().Unix()),
\* with one call to a second
CloneName(vmName, now) == <<vmName, "-inspect-clone-", now>>

\* InspectVMFromSnapshot is called
CloneCall ==
  /\ cpc \in {"off", "returned"}
  /\ cCalls < MaxCalls
  /\ cCalls' = cCalls + 1
  /\ cpc' = "find"
  /\ cFind' = ""
  /\ cClone' = ""
  /\ cDelete' = ""
  /\ cDeletes' = 0
  /\ \E vmName \in {"vm1", "vm2"} : cName' = CloneName(vmName, cCalls + 1)
  /\ UNCHANGED <<cClones, cResult>>
  /\ UNCHANGED <<earlier, inspVars, logVars, pwVars, subVars>>

\* snapshotRef, err := s.FindSnapshotByName(ctx, vmName, snapshotName)
CloneFind ==
  /\ cpc = "find"
  /\ \E out \in CallOutcomes :
       /\ cFind' = out
       /\ IF out = "ok"
            THEN cpc' = "create" /\ UNCHANGED cResult
            ELSE /\ cpc' = "returned"
                 /\ cResult' = Errorf("failed to find snapshot", out)
  /\ UNCHANGED <<cClone, cDelete, cDeletes, cCalls, cClones, cName>>
  /\ UNCHANGED <<earlier, inspVars, logVars, pwVars, subVars>>

\* err = s.CreateLinkedClone(ctx, vmName, snapshotRef, cloneName)
CloneCreate ==
  /\ cpc = "create"
  /\ \E out \in CallOutcomes :
       /\ cClone' = out
       /\ IF out = "ok"
            THEN /\ cpc' = "deferred"
                 /\ cClones' = cClones \cup {cName}
                 /\ UNCHANGED cResult
            ELSE /\ cpc' = "returned"
                 /\ cResult' = Errorf("failed to create linked clone", out)
                 /\ UNCHANGED cClones
  /\ UNCHANGED <<cFind, cDelete, cDeletes, cCalls, cName>>
  /\ UNCHANGED <<earlier, inspVars, logVars, pwVars, subVars>>

\* the deferred function runs at return nil: cleanupErr := s.DeleteVM(ctx,
\* cloneName)
CloneCleanup ==
  /\ cpc = "deferred"
  /\ \E out \in CallOutcomes :
       /\ cDelete' = out
       /\ cClones' = IF out = "ok" THEN cClones \ {cName} ELSE cClones
  /\ cDeletes' = cDeletes + 1
  /\ cpc' = "cleaned"
  /\ UNCHANGED <<cFind, cClone, cCalls, cName, cResult>>
  /\ UNCHANGED <<earlier, inspVars, logVars, pwVars, subVars>>

\* InspectVMFromSnapshot returns to its caller after the deferred function
CloneReturn ==
  /\ cpc = "cleaned"
  /\ cpc' = "returned"
  /\ cResult' = CleanupResult(NilError, cDelete)
  /\ UNCHANGED <<cFind, cClone, cDelete, cDeletes, cCalls, cClones, cName>>
  /\ UNCHANGED <<earlier, inspVars, logVars, pwVars, subVars>>

InitClone == EarlierIdle /\ InspIdle /\ LogIdle /\ PwIdle /\ CloneIdle /\ SubIdle

NextClone ==
  \/ CloneCall
  \/ CloneFind
  \/ CloneCreate
  \/ CloneCleanup
  \/ CloneReturn

SpecClone == InitClone /\ [][NextClone]_vars

\* ----------------------------------------- InspectVMFromSnapshot: claims
\* C38: when InspectVMFromSnapshot has returned, DeleteVM was called once
\* if CreateLinkedClone had succeeded and not at all otherwise, and the
\* result is nil in the first case whatever DeleteVM returned; DeleteVM is
\* never called a second time or before the clone exists.
C38_CalledOnce ==
  /\ cDeletes \in {0, 1}
  /\ cDeletes = 1 => cClone = "ok" /\ cFind = "ok"
  /\ cpc = "returned" =>
       /\ cDeletes = (IF cClone = "ok" THEN 1 ELSE 0)
       /\ cClone = "ok" => cResult = NilError
       /\ cFind \notin {"ok", ""} =>
            cResult = Errorf("failed to find snapshot", cFind)
       /\ cClone \notin {"ok", ""} =>
            cResult = Errorf("failed to create linked clone", cClone)

C38_DeleteStep ==
  (cDeletes' # cDeletes /\ cDeletes' # 0) =>
    /\ cClone = "ok"
    /\ cpc = "deferred"
    /\ cpc' # "returned"

C38_DeleteOnceAfterClone == []C38_CalledOnce /\ [][C38_DeleteStep]_vars

\* a call returned nil although its DeleteVM failed, after a call whose
\* clone could not be created
C38_Witness ==
  /\ cpc = "returned"
  /\ cCalls = 2
  /\ cClone = "ok"
  /\ cDelete = "failed"
  /\ cDeletes = 1
  /\ cResult = NilError

\* ----------------------------------------- the handler helper contains
\* the bytes strings are made of here: 'A', 'a', 'b'
StringBytes == {65, 97, 98}

\* the strings of at most MaxStr bytes
Strings == UNION {[1..k -> StringBytes] : k \in 0..MaxStr}

\* toLower(b byte) byte
toLower(b) == IF b >= 65 /\ b <= 90 THEN b + (97 - 65) ELSE b

\* the inner loop of hasSubstring at offset i: match
MatchAt(s, substr, i) ==
  \A j \in 0..(Len(substr) - 1) :
    toLower(s[i + j + 1]) = toLower(substr[j + 1])

RECURSIVE HasSubstringFrom(_, _, _)
\* the outer loop of hasSubstring from offset i on
HasSubstringFrom(s, substr, i) ==
  IF i <= Len(s) - Len(substr)
    THEN IF MatchAt(s, substr, i)
           THEN TRUE
           ELSE HasSubstringFrom(s, substr, i + 1)
    ELSE FALSE

\* hasSubstring(s, substr string) bool
hasSubstring(s, substr) == HasSubstringFrom(s, substr, 0)

contains_AnyLength(s, substr) ==
  Len(s) >= Len(substr) /\ (s = substr \/ hasSubstring(s, substr))

\* contains(s, substr string) bool
contains(s, substr) ==
  Len(s) >= Len(substr) /\
    (s = substr \/ (Len(s) > Len(substr) /\ hasSubstring(s, substr)))

\* contains(s, substr) is called
ContainsCall ==
  /\ sPc = "input"
  /\ sPc' = "done"
  /\ sResult' = contains(sS, sSubstr)
  /\ UNCHANGED <<sS, sSubstr>>
  /\ UNCHANGED <<earlier, inspVars, logVars, pwVars, cloneVars>>

InitContains ==
  /\ EarlierIdle /\ InspIdle /\ LogIdle /\ PwIdle /\ CloneIdle
  /\ sS \in Strings
  /\ sSubstr \in Strings
  /\ sPc = "input"
  /\ sResult = FALSE

SpecContains == InitContains /\ [][ContainsCall]_vars

\* ----------------------------------------- contains: claims
\* two bytes are equal under ASCII case folding
EqualFold(a, b) ==
  \/ a = b
  \/ a \in 65..90 /\ b = a + 32
  \/ b \in 65..90 /\ a = b + 32

\* substr occurs in s under ASCII case-insensitive comparison
OccursFolded(s, substr) ==
  \E i \in 1..(Len(s) + 1) :
    /\ i + Len(substr) - 1 <= Len(s)
    /\ \A j \in 1..Len(substr) : EqualFold(s[i + j - 1], substr[j])

\* C39: contains returns true exactly when substr occurs in s under ASCII
\* case-insensitive comparison, strings of equal length included.
C39_ContainsIffOccurs ==
  sPc = "done" => (sResult <=> OccursFolded(sS, sSubstr))

====
